---- MODULE Spec2Model ----
(***************************************************************************)
(* english-bot: the per-user session state machine of bot.Handler run on   *)
(* top of database.PostgresDB.                                             *)
(*                                                                         *)
(* One turn is one call of Handler.HandleUpdate.  A turn is a sequence of  *)
(* store statements (each statement of postgres.go is atomic, nothing      *)
(* spans two statements) with local code and calls of the completion       *)
(* provider between them.  Every action below is one store statement       *)
(* together with the local code that follows it up to the next statement.  *)
(* Several turns may be in flight at once (spec.md section 5: one task per *)
(* inbound message, no per-user serialisation).                            *)
(*                                                                         *)
(* The timestamps created_at, updated_at and last_activity of the rows are  *)
(* left out: nothing reads them.  The one date that is read, the           *)
(* last_activity_date of user_progress, is kept.                           *)
(*                                                                         *)
(* Store statements succeed unless a constraint of migrations.sql rejects  *)
(* them.  A transient failure is a nondeterministic outcome only where the *)
(* handler has an error branch that nothing else reaches: the provider     *)
(* calls, StartConversation and SaveExercise.                              *)
(***************************************************************************)
EXTENDS Integers, Sequences, FiniteSets, TLC

\* Number of turns (inbound updates) of one run.
MaxTurns == 2
\* Number of turns processed at the same time.
MaxInFlight == 2
\* Calendar days run from 0 to MaxDay.
MaxDay == 1
\* Streaks of a progress row that is already stored run from 0 to MaxStreak.
MaxStreak == 2

\* Telegram users that write to the bot.
Users == {1}

VARIABLES
    users,              \* table users: the telegram ids that have a row
    user_sessions,      \* table user_sessions: sequence of rows, id = index
    exercises,          \* table exercises: sequence of rows, id = index
    user_exercises,     \* table user_exercises: sequence of rows
    conversations,      \* table conversations: sequence of rows, id = index
    conversation_messages, \* table conversation_messages: sequence of rows
    user_progress,      \* table user_progress: one optional row per user
    user_achievements,  \* table user_achievements: sequence of rows
    today,              \* the calendar day of time.Now()
    turn,               \* per turn: position and locals of HandleUpdate
    call,               \* the last call of a function of ExerciseService
    limits,             \* RateLimiter.limits: user id -> last request time
    clock,              \* time.Now() as the RateLimiter reads it, in ticks
    updates             \* the updates RateLimiter.HandleUpdate has handled

vars == <<users, user_sessions, exercises, user_exercises, conversations,
          conversation_messages, user_progress, user_achievements, today, turn,
          call, limits, clock, updates>>

\* The turns of the run.
Turns == DOMAIN turn

----------------------------------------------------------------------------
\* State constants of the handler.
StateIdle == "idle"
StateChat == "chat"
StateGrammarCheck == "grammar_check"
StateExercise == "exercise"
StateExerciseReply == "exercise_reply"

States == {StateIdle, StateChat, StateGrammarCheck, StateExercise, StateExerciseReply}

Commands == {"start", "help", "chat", "check", "exercise", "progress", "other"}
\* What an update carries: a command, or free text.
Messages == Commands \cup {"text"}

----------------------------------------------------------------------------
\* Strings are sequences of characters; the strings that are read back as
\* numbers are spelled out digit by digit.

Digit == <<"0", "1", "2", "3", "4", "5", "6", "7", "8", "9">>

\* fmt.Sprintf("%d", n) for n >= 0.
RECURSIVE Sprintf_d(_)
Sprintf_d(n) ==
    IF n < 10 THEN <<Digit[n + 1]>>
    ELSE Sprintf_d(n \div 10) \o <<Digit[(n % 10) + 1]>>

DigitValue(c) == CHOOSE d \in 0..9 : Digit[d + 1] = c
IsDigit(c) == \E d \in 0..9 : Digit[d + 1] = c

\* The value of the longest prefix of digits of s, acc so far.
RECURSIVE ScanDigits(_, _)
ScanDigits(s, acc) ==
    IF s = <<>> \/ ~IsDigit(Head(s)) THEN acc
    ELSE ScanDigits(Tail(s), 10 * acc + DigitValue(Head(s)))

\* fmt.Sscanf(s, "%d", &v) into a variable that holds 0: the leading digits
\* of s, and 0 (v untouched) when s does not start with a digit.
Sscanf_d(s) == ScanDigits(s, 0)

\* A string that holds no digit, kept as one token.
Word(w) == <<w>>

\* A NULL of a nullable text column.
Null == <<"NULL">>

----------------------------------------------------------------------------
\* context_data: a JSON document.  It is an object of string fields
\* (kind "object", the fields as a function) or any other document.

JsonObject(m) == [kind |-> "object", fields |-> m]
JsonOther == [kind |-> "other", fields |-> <<>>]

\* json.Marshal of a map[string]string.
Marshal(m) == JsonObject(m)

\* json.Unmarshal into a map[string]string: fails on any document that is
\* not an object of strings.
Unmarshal(b) ==
    IF b.kind = "object" THEN [err |-> FALSE, val |-> b.fields]
    ELSE [err |-> TRUE, val |-> <<>>]

\* m[k] of a Go map: the zero value "" for a missing key.
MapGet(m, k) == IF k \in DOMAIN m THEN m[k] ELSE <<>>

\* m[k] = v of a Go map.
MapSet(m, k, v) == [x \in (DOMAIN m) \cup {k} |-> IF x = k THEN v ELSE m[x]]

EmptyMap == <<>>

----------------------------------------------------------------------------
\* ExerciseService: CheckAnswer and the Levenshtein similarity.
\*
\* A text is a sequence of characters.  A Go string is the sequence of the
\* bytes of its UTF-8 encoding: len(s) counts bytes and s[i] is a byte.  A
\* character of ASCII is its own byte; the Cyrillic letters below take two.

\* The longest text of the alphabet that is graded or compared.
MaxLen == 3

\* Lower case and upper case letter, and the space.
Alphabet == {"a", "A", " "}

\* The texts over an alphabet of at most n characters.
RECURSIVE Strings(_, _)
Strings(A, n) ==
    IF n = 0 THEN {<<>>}
    ELSE LET S == Strings(A, n - 1)
         IN S \cup {Append(s, c) : s \in {x \in S : Len(x) = n - 1}, c \in A}

\* ka, o, te, i of the Cyrillic alphabet, by their code points.
Cyrillic == {"U+043A", "U+043E", "U+0442", "U+0438"}

\* The bytes of a character in UTF-8.
UTF8Char(c) ==
    CASE c = "U+043A" -> <<"0xD0", "0xBA">>
      [] c = "U+043E" -> <<"0xD0", "0xBE">>
      [] c = "U+0442" -> <<"0xD1", "0x82">>
      [] c = "U+0438" -> <<"0xD0", "0xB8">>
      [] OTHER -> <<c>>

\* The Go string of a text.
RECURSIVE UTF8(_)
UTF8(s) == IF s = <<>> THEN <<>> ELSE UTF8Char(Head(s)) \o UTF8(Tail(s))

\* Texts that are longer than MaxLen or not of the alphabet.  The last three
\* are the Russian words kot, kit, tok.
ExampleTexts ==
    { <<"c", "a", "t">>,
      <<"c", "a", "t", "s">>,
      <<"U+043A", "U+043E", "U+0442">>,
      <<"U+043A", "U+0438", "U+0442">>,
      <<"U+0442", "U+043E", "U+043A">> }

\* The texts that are compared.
Texts == Strings(Alphabet, MaxLen) \cup ExampleTexts

\* Answers as a user types them.
ExampleUserAnswers ==
    { <<"h", "e", "l", "l", "o">>,
      <<"h", "a", "l", "l", "o">>,
      <<"p", "l", "a", "y", "i", "n", "g">>,
      <<"p", "l", "a", "y", "i", "n">>,
      <<"i", " ", "l", "i", "k", "e", " ", "i", "t">>,
      <<"l", "o", "v", "e">>,
      <<"B">> }

UserAnswers == Strings(Alphabet, MaxLen) \cup ExampleUserAnswers

\* Canonical answers of an exercise: variants are separated by "/".
ExampleAnswers ==
    { <<"h", "e", "l", "l", "o">>,
      <<"p", "l", "a", "y", "i", "n", "g">>,
      <<"l", "i", "k", "e", "/", "l", "o", "v", "e">>,
      <<"A", "/", "B">>,
      <<"p", "l", "a", "y", "i", "n", "g", "/", "p", "l", "a", "y">> }

Answers == Strings(Alphabet \cup {"/"}, MaxLen) \cup ExampleAnswers

UpperCase ==
    <<"A", "B", "C", "D", "E", "F", "G", "H", "I", "J", "K", "L", "M",
      "N", "O", "P", "Q", "R", "S", "T", "U", "V", "W", "X", "Y", "Z">>
LowerCase ==
    <<"a", "b", "c", "d", "e", "f", "g", "h", "i", "j", "k", "l", "m",
      "n", "o", "p", "q", "r", "s", "t", "u", "v", "w", "x", "y", "z">>

\* strings.ToLower: the letters A to Z are mapped, every other byte of the
\* strings above is kept.
ToLowerByte(c) ==
    IF \E i \in DOMAIN UpperCase : UpperCase[i] = c
    THEN LowerCase[CHOOSE i \in DOMAIN UpperCase : UpperCase[i] = c]
    ELSE c
ToLower(s) == [i \in DOMAIN s |-> ToLowerByte(s[i])]

\* White space of ASCII.
IsSpace(c) == c \in {" ", "\t", "\n", "\r"}

RECURSIVE TrimLeft(_)
TrimLeft(s) ==
    IF s = <<>> THEN s
    ELSE IF IsSpace(Head(s)) THEN TrimLeft(Tail(s)) ELSE s

RECURSIVE TrimRight(_)
TrimRight(s) ==
    IF s = <<>> THEN s
    ELSE IF IsSpace(s[Len(s)]) THEN TrimRight(SubSeq(s, 1, Len(s) - 1)) ELSE s

\* strings.TrimSpace.
TrimSpace(s) == TrimRight(TrimLeft(s))

\* strings.Split(s, sep) for a separator of one byte; cur is the piece that
\* is being read.  The split of "" is the one piece "".
RECURSIVE SplitFrom(_, _, _)
SplitFrom(s, sep, cur) ==
    IF s = <<>> THEN <<cur>>
    ELSE IF Head(s) = sep THEN <<cur>> \o SplitFrom(Tail(s), sep, <<>>)
    ELSE SplitFrom(Tail(s), sep, Append(cur, Head(s)))
Split(s, sep) == SplitFrom(s, sep, <<>>)

\* strings.Contains.
Contains(s, substr) ==
    \E i \in 0..(Len(s) - Len(substr)) : SubSeq(s, i + 1, i + Len(substr)) = substr

\* min of three and max of two numbers.
min(a, b, c) ==
    IF a < b THEN (IF a < c THEN a ELSE c)
    ELSE IF b < c THEN b ELSE c
max(a, b) == IF a > b THEN a ELSE b

\* SubstitutionCost that charges two for a substitution.
SubstitutionCost_Two(c1, c2) == IF c1 = c2 THEN 0 ELSE 2

\* cost: 0 for equal bytes, else 1.
SubstitutionCost(c1, c2) == IF c1 = c2 THEN 0 ELSE 1

\* The inner loop of levenshteinDistance: the row matrix[i] from the row
\* matrix[i-1] (prev) and the byte c = s1[i-1].  row holds the columns filled
\* so far, row[j + 1] = matrix[i][j].
RECURSIVE FillRow(_, _, _, _)
FillRow(prev, c, s2, row) ==
    LET j == Len(row)
    IN IF j > Len(s2) THEN row
       ELSE FillRow(prev, c, s2,
                    Append(row, min(prev[j + 1] + 1,
                                    row[j] + 1,
                                    prev[j] + SubstitutionCost(c, s2[j]))))

\* The outer loop: the rows i up to len(s1); the last row is returned.
RECURSIVE FillMatrix(_, _, _, _)
FillMatrix(s1, s2, i, prev) ==
    IF i > Len(s1) THEN prev
    ELSE FillMatrix(s1, s2, i + 1, FillRow(prev, s1[i], s2, <<i>>))

\* levenshteinDistance of two Go strings.
levenshteinDistance(s1, s2) ==
    IF Len(s1) = 0 THEN Len(s2)
    ELSE IF Len(s2) = 0 THEN Len(s1)
    ELSE FillMatrix(s1, s2, 1, [j \in 1..(Len(s2) + 1) |-> j - 1])[Len(s2) + 1]

\* levenshteinRatio that gives 0 for two empty strings.
levenshteinRatio_ZeroForEmpty(s1, s2) ==
    LET dist == levenshteinDistance(s1, s2)
        maxLen == max(Len(s1), Len(s2))
    IN IF maxLen = 0 THEN [num |-> 0, den |-> 1]
       ELSE [num |-> maxLen - dist, den |-> maxLen]

\* levenshteinRatio: 1.0 - dist/maxLen as the fraction num/den, den > 0.
\* The float64 the code computes compares with 0.8 and with 0.75 as the
\* fraction does (for every dist <= maxLen < 2000, by calculation).
levenshteinRatio(s1, s2) ==
    LET dist == levenshteinDistance(s1, s2)
        maxLen == max(Len(s1), Len(s2))
    IN IF maxLen = 0 THEN [num |-> 1, den |-> 1]
       ELSE [num |-> maxLen - dist, den |-> maxLen]

\* Normalize that keeps the letter case.
Normalize_KeepsCase(s) == TrimSpace(s)

\* strings.ToLower(strings.TrimSpace(s)).
Normalize(s) == ToLower(TrimSpace(s))

\* ExactMatch with a variant that is not trimmed.
ExactMatch_NoTrim(normalizedUserAnswer, variant) ==
    normalizedUserAnswer = variant

\* The test of the first loop of CheckAnswer.
ExactMatch(normalizedUserAnswer, variant) ==
    normalizedUserAnswer = TrimSpace(variant)

\* NearMatch with >= 0.8.
NearMatch_AtLeast(normalizedUserAnswer, variant) ==
    LET r == levenshteinRatio(normalizedUserAnswer, TrimSpace(variant))
    IN 5 * r.num >= 4 * r.den

\* The test of the second loop: levenshteinRatio(...) > 0.8.
NearMatch(normalizedUserAnswer, variant) ==
    LET r == levenshteinRatio(normalizedUserAnswer, TrimSpace(variant))
    IN 5 * r.num > 4 * r.den

\* PartialMatch that wants a variant that is not empty.
PartialMatch_NonEmpty(normalizedUserAnswer, variant) ==
    /\ TrimSpace(variant) # <<>>
    /\ Contains(normalizedUserAnswer, TrimSpace(variant))

\* The test of the third loop of CheckAnswer.
PartialMatch(normalizedUserAnswer, variant) ==
    Contains(normalizedUserAnswer, TrimSpace(variant))

\* CheckAnswer: the score it returns for exercise.Answer and the user's
\* answer, both Go strings.  Each loop returns at its first hit.
CheckAnswer(answer, userAnswer) ==
    LET normalizedUserAnswer == Normalize(userAnswer)
        normalizedCorrectAnswer == Normalize(answer)
        correctVariants == Split(normalizedCorrectAnswer, "/")
        variants == DOMAIN correctVariants
    IN IF \E i \in variants : ExactMatch(normalizedUserAnswer, correctVariants[i])
       THEN 100
       ELSE IF \E i \in variants : NearMatch(normalizedUserAnswer, correctVariants[i])
       THEN 80
       ELSE IF \E i \in variants : PartialMatch(normalizedUserAnswer, correctVariants[i])
       THEN 60
       ELSE 0

----------------------------------------------------------------------------
\* Rows and locals.

\* database.UserSession as held by a turn.
NoSession ==
    [ID |-> 0, UserID |-> 0, State |-> "", ContextData |-> JsonObject(EmptyMap),
     ConversationID |-> <<>>]

\* database.UserProgress; exists = FALSE stands for "no row".
NoProgress ==
    [exists |-> FALSE, TotalExercises |-> 0, CorrectExercises |-> 0,
     TotalConversations |-> 0, TotalMessages |-> 0, CurrentStreak |-> 0,
     LongestStreak |-> 0, LastActivityDate |-> 0]

\* The locals of a turn that has not begun.
NoTurn ==
    [pc |-> "new", user |-> 0, msg |-> "", session |-> NoSession,
     loaded |-> NoSession, conversationID |-> 0, savedExercise |-> 0,
     progress |-> NoProgress, cont |-> "", outcome |-> ""]

\* Positions at which a turn is being processed.
InFlight(t) == turn[t].pc \notin {"new", "done", "panic", "killed"}

\* The turn ends: the handler returns and its locals are gone.  What is kept
\* is what the turn was: its user, its message, and how it ended.
Return(t, r, how) ==
    [NoTurn EXCEPT !.pc = "done", !.user = r.user, !.msg = r.msg,
                   !.outcome = how]

\* No function of ExerciseService has been called.
NoCall == [op |-> "none"]

----------------------------------------------------------------------------
\* The bot starts on an empty store.
\* The users the RateLimiter sees, and the mark of a user without an entry
\* in limits.
LimiterUsers == {1, 2}
NoRequest == 0 - 1

\* NewRateLimiter: an empty map; no update has been handled.
NewRateLimiter ==
    /\ limits = [u \in LimiterUsers |-> NoRequest]
    /\ clock = 0
    /\ updates = <<>>

EmptyStore ==
    /\ users = {}
    /\ user_sessions = <<>>
    /\ exercises = <<>>
    /\ user_exercises = <<>>
    /\ conversations = <<>>
    /\ conversation_messages = <<>>
    /\ user_progress = [u \in Users |-> NoProgress]
    /\ user_achievements = <<>>
    /\ today = 0
    /\ call = NoCall
    /\ NewRateLimiter

Init ==
    /\ EmptyStore
    /\ turn = [t \in 1..MaxTurns |-> NoTurn]

\* The same with one turn more.
InitLong ==
    /\ EmptyStore
    /\ turn = [t \in 1..(MaxTurns + 1) |-> NoTurn]

\* The tables a step leaves alone: all but those named in S.
DbUnchangedExcept(S) ==
    /\ IF "users" \in S THEN TRUE ELSE UNCHANGED users
    /\ IF "user_sessions" \in S THEN TRUE ELSE UNCHANGED user_sessions
    /\ IF "exercises" \in S THEN TRUE ELSE UNCHANGED exercises
    /\ IF "user_exercises" \in S THEN TRUE ELSE UNCHANGED user_exercises
    /\ IF "conversations" \in S THEN TRUE ELSE UNCHANGED conversations
    /\ IF "conversation_messages" \in S THEN TRUE
       ELSE UNCHANGED conversation_messages
    /\ IF "user_progress" \in S THEN TRUE ELSE UNCHANGED user_progress
    /\ IF "user_achievements" \in S THEN TRUE ELSE UNCHANGED user_achievements
    /\ UNCHANGED <<today, call, limits, clock, updates>>

SetTurn(t, r) == turn' = [turn EXCEPT ![t] = r]

----------------------------------------------------------------------------
\* HandleUpdate, getOrCreateUser.

\* HandleUpdate is called with an update that carries a message (one without
\* is ignored and is no turn), and getOrCreateUser looks the sender up
\* (GetUserByTelegramID).  Turns begin in the order of their numbers.
Receive(t) ==
    /\ turn[t].pc = "new"
    /\ IF t = 1 THEN TRUE ELSE turn[t - 1].pc # "new"
    /\ Cardinality({x \in Turns : InFlight(x)}) < MaxInFlight
    /\ \E u \in Users :
         SetTurn(t, [turn[t] EXCEPT !.user = u,
                        !.pc = IF u \in users THEN "session" ELSE "create_user"])
    /\ DbUnchangedExcept({})

\* CreateUser: INSERT INTO users.  telegram_id is UNIQUE: the insert of a
\* user that another turn has created meanwhile fails, and the turn ends with
\* the error message.  Otherwise UpdateUserStreak is called for the new user.
CreateUser(t) ==
    /\ turn[t].pc = "create_user"
    /\ IF turn[t].user \in users
       THEN /\ SetTurn(t, Return(t, turn[t], "error"))
            /\ DbUnchangedExcept({})
       ELSE /\ users' = users \cup {turn[t].user}
            /\ SetTurn(t, [turn[t] EXCEPT !.pc = "progress_get", !.cont = "session"])
            /\ DbUnchangedExcept({"users"})

----------------------------------------------------------------------------
\* GetUserProgress, CreateUserProgress, UpdateUserStreak, AddUserAchievement.

\* Where a turn goes on when UpdateUserStreak has returned.
AfterStreak(t, r) ==
    IF r.cont = "session"
    THEN [r EXCEPT !.pc = "session", !.progress = NoProgress, !.cont = ""]
    ELSE Return(t, r, "ok")

\* What the callers of GetUserProgress read of the progress they get: the
\* streak columns (the message of /progress is not modelled).
StreakColumns(p) ==
    [NoProgress EXCEPT !.exists = p.exists, !.CurrentStreak = p.CurrentStreak,
                       !.LongestStreak = p.LongestStreak,
                       !.LastActivityDate = p.LastActivityDate]

\* GetUserProgress: the SELECT.  Called by UpdateUserStreak (cont "session"
\* or "done") and by the /progress command (cont "show").
GetUserProgress(t) ==
    /\ turn[t].pc = "progress_get"
    /\ LET row == user_progress[turn[t].user]
           r == [turn[t] EXCEPT !.progress = StreakColumns(row)]
       IN SetTurn(t,
            IF ~row.exists THEN [r EXCEPT !.pc = "progress_create"]
            ELSE IF r.cont = "show" THEN Return(t, r, "ok")
            ELSE [r EXCEPT !.pc = "streak_update"])
    /\ DbUnchangedExcept({})

\* The row CreateUserProgress inserts.
NewProgress(now) ==
    [NoProgress EXCEPT !.exists = TRUE, !.LastActivityDate = now]

\* CreateUserProgress: the INSERT.  user_id is UNIQUE: when another turn has
\* inserted the row meanwhile the insert fails; UpdateUserStreak then returns
\* the error (its callers drop it), /progress sends the error message.
CreateUserProgress(t) ==
    /\ turn[t].pc = "progress_create"
    /\ LET u == turn[t].user
           r == [turn[t] EXCEPT !.progress = NewProgress(today)]
       IN IF user_progress[u].exists
          THEN /\ SetTurn(t, IF turn[t].cont = "show"
                             THEN Return(t, turn[t], "error")
                             ELSE AfterStreak(t, turn[t]))
               /\ DbUnchangedExcept({})
          ELSE /\ user_progress' = [user_progress EXCEPT ![u] = NewProgress(today)]
               /\ SetTurn(t, IF r.cont = "show" THEN Return(t, r, "ok")
                             ELSE [r EXCEPT !.pc = "streak_update"])
               /\ DbUnchangedExcept({"user_progress"})

\* The streaks that unlock an achievement.
StreakAchievements == {7, 30, 100}

\* NextStreak that goes on counting after a gap.
NextStreak_KeepsAfterGap(p, now) ==
    LET cur == p.CurrentStreak + 1
    IN [write |-> p.LastActivityDate # now,
        CurrentStreak |-> cur,
        LongestStreak |-> IF cur > p.LongestStreak THEN cur ELSE p.LongestStreak]

\* The streak UpdateUserStreak computes from the progress it has read;
\* write = FALSE when it returns without writing.
NextStreak(p, now) ==
    LET cur == IF p.LastActivityDate = now - 1 THEN p.CurrentStreak + 1 ELSE 1
    IN [write |-> p.LastActivityDate # now,
        CurrentStreak |-> cur,
        LongestStreak |-> IF cur > p.LongestStreak THEN cur ELSE p.LongestStreak]

\* The UPDATE of UpdateUserStreak on a row: the three streak columns.
WriteStreak(row, n, now) ==
    [row EXCEPT !.CurrentStreak = n.CurrentStreak,
                !.LongestStreak = n.LongestStreak,
                !.LastActivityDate = now]

\* UnlocksAchievement for a streak of seven days only.
UnlocksAchievement_SevenOnly(n) == n = 7

\* The streaks for which UpdateUserStreak calls AddUserAchievement.
UnlocksAchievement(n) == n = 7 \/ n = 30 \/ n = 100

\* fmt.Sprintf("streak_%d_days", n).
AchievementType(n) == <<"streak_">> \o Sprintf_d(n) \o <<"_days">>

\* UpdateUserStreak after GetUserProgress: the date comparison and the UPDATE
\* of the three streak columns.  The progress the turn holds is the one it
\* has written; with a streak that unlocks an achievement AddUserAchievement
\* follows.
UpdateUserStreak(t) ==
    /\ turn[t].pc = "streak_update"
    /\ LET u == turn[t].user
           n == NextStreak(turn[t].progress, today)
           r == [turn[t] EXCEPT !.progress = WriteStreak(@, n, today)]
       IN IF ~n.write
          THEN /\ SetTurn(t, AfterStreak(t, turn[t]))
               /\ DbUnchangedExcept({})
          ELSE /\ user_progress' =
                     [user_progress EXCEPT ![u] = WriteStreak(@, n, today)]
               /\ SetTurn(t, IF UnlocksAchievement(n.CurrentStreak)
                             THEN [r EXCEPT !.pc = "achievement_select"]
                             ELSE AfterStreak(t, turn[t]))
               /\ DbUnchangedExcept({"user_progress"})

\* The rows of user_achievements of a user and a type.
AchievementRows(rows, u, type) ==
    {i \in DOMAIN rows : rows[i].userID = u /\ rows[i].achievementType = type}

\* AddUserAchievement: the SELECT.  With a row found it returns.
AddUserAchievementSelect(t) ==
    /\ turn[t].pc = "achievement_select"
    /\ LET type == AchievementType(turn[t].progress.CurrentStreak)
       IN SetTurn(t, IF AchievementRows(user_achievements, turn[t].user, type) # {}
                     THEN AfterStreak(t, turn[t])
                     ELSE [turn[t] EXCEPT !.pc = "achievement_insert"])
    /\ DbUnchangedExcept({})

\* InsertAchievement on a table without the UNIQUE constraint.
InsertAchievement_NoUnique(rows, u, type) ==
    Append(rows, [userID |-> u, achievementType |-> type])

\* The INSERT into user_achievements: UNIQUE(user_id, achievement_type)
\* rejects a second row of a user and a type.
InsertAchievement(rows, u, type) ==
    IF AchievementRows(rows, u, type) # {} THEN rows
    ELSE Append(rows, [userID |-> u, achievementType |-> type])

\* AddUserAchievement: the INSERT.  UpdateUserStreak drops the error of a
\* rejected insert.
AddUserAchievementInsert(t) ==
    /\ turn[t].pc = "achievement_insert"
    /\ user_achievements' =
          InsertAchievement(user_achievements, turn[t].user,
                            AchievementType(turn[t].progress.CurrentStreak))
    /\ SetTurn(t, AfterStreak(t, turn[t]))
    /\ DbUnchangedExcept({"user_achievements"})

----------------------------------------------------------------------------
\* GetOrCreateUserSession, UpdateUserSession.

\* NewSessionRow with the state left out of the session that is inserted.
NewSessionRow_NoState(userID) ==
    [userID |-> userID, state |-> "",
     contextData |-> JsonObject(EmptyMap), conversationID |-> Null]

\* The row INSERTed for a user without a session.  conversation_id is not
\* among the inserted columns and has no default: it is NULL.
NewSessionRow(userID) ==
    [userID |-> userID, state |-> StateIdle,
     contextData |-> JsonObject(EmptyMap), conversationID |-> Null]

\* The UserSession GetOrCreateUserSession returns for the row it inserted.
NewSession(id, userID) ==
    [ID |-> id, UserID |-> userID, State |-> StateIdle,
     ContextData |-> JsonObject(EmptyMap), ConversationID |-> <<>>]

\* The UserSession scanned from row i.
ScanSession(i) ==
    [ID |-> i, UserID |-> user_sessions[i].userID,
     State |-> user_sessions[i].state,
     ContextData |-> user_sessions[i].contextData,
     ConversationID |-> user_sessions[i].conversationID]

\* UpdateUserSession that keeps the stored conversation_id when the session
\* it is given holds none.
UpdateUserSession_KeepsStored(s) ==
    [user_sessions EXCEPT ![s.ID] =
        [@ EXCEPT !.state = s.State, !.contextData = s.ContextData,
                  !.conversationID = IF s.ConversationID = <<>> THEN @
                                     ELSE s.ConversationID]]

\* UpdateUserSession: state, context_data and conversation_id of the row
\* with the session's id are set in one UPDATE.
UpdateUserSession(s) ==
    [user_sessions EXCEPT ![s.ID] =
        [@ EXCEPT !.state = s.State, !.contextData = s.ContextData,
                  !.conversationID = s.ConversationID]]

\* Dispatch that takes /help for /start.
Dispatch_HelpAsStart(t, r, s, m) ==
    LET q == [r EXCEPT !.session = s, !.loaded = s, !.msg = m]
    IN IF m \in {"start", "help"} THEN [q EXCEPT !.pc = "cmd_start"]
       ELSE IF m = "progress" THEN [q EXCEPT !.pc = "progress_get", !.cont = "show"]
       ELSE IF m = "other" THEN Return(t, q, "ok")
       ELSE [q EXCEPT !.pc = "msg_default"]

\* HandleUpdate once the session is there: a command goes to handleCommand,
\* anything else to handleMessageByState.  The result is the turn at its
\* first store statement; /help and an unknown command only send a message.
Dispatch(t, r, s, m) ==
    LET q == [r EXCEPT !.session = s, !.loaded = s, !.msg = m]
    IN CASE m = "start" -> [q EXCEPT !.pc = "cmd_start"]
         [] m = "chat" -> [q EXCEPT !.pc = "cmd_chat"]
         [] m = "check" -> [q EXCEPT !.pc = "cmd_check"]
         [] m = "exercise" -> [q EXCEPT !.pc = "cmd_exercise"]
         [] m = "progress" -> [q EXCEPT !.pc = "progress_get", !.cont = "show"]
         [] m \in {"help", "other"} -> Return(t, q, "ok")
         [] m = "text" /\ s.State = StateChat ->
              IF Sscanf_d(s.ConversationID) = 0
              THEN [q EXCEPT !.pc = "msg_chat_conv"]
              ELSE [q EXCEPT !.pc = "msg_chat_user",
                             !.conversationID = Sscanf_d(s.ConversationID)]
         [] m = "text" /\ s.State = StateGrammarCheck ->
              [q EXCEPT !.pc = "msg_grammar"]
         [] m = "text" /\ s.State = StateExerciseReply ->
              [q EXCEPT !.pc = "msg_reply"]
         [] OTHER -> [q EXCEPT !.pc = "msg_default"]

\* The rows of user_sessions with the user's id.
SessionRows(u) == {i \in DOMAIN user_sessions : user_sessions[i].userID = u}

\* GetOrCreateUserSession, the SELECT: QueryRow takes the first row of those
\* with the user's id, in no stated order.  Scanning a NULL conversation_id
\* into the string field fails (pgx/v5), and the turn ends with the error
\* message.  Without a row the INSERT follows.
GetUserSession(t) ==
    /\ turn[t].pc = "session"
    /\ IF SessionRows(turn[t].user) = {}
       THEN /\ SetTurn(t, [turn[t] EXCEPT !.pc = "session_create"])
            /\ DbUnchangedExcept({})
       ELSE \E i \in SessionRows(turn[t].user) :
              IF user_sessions[i].conversationID = Null
              THEN /\ SetTurn(t, Return(t, turn[t], "error"))
                   /\ DbUnchangedExcept({})
              ELSE /\ \E m \in Messages :
                         SetTurn(t, Dispatch(t, turn[t], ScanSession(i), m))
                   /\ DbUnchangedExcept({})

\* GetOrCreateUserSession, the INSERT.  user_sessions has no constraint on
\* user_id, so the insert always succeeds.
CreateUserSession(t) ==
    /\ turn[t].pc = "session_create"
    /\ user_sessions' = Append(user_sessions, NewSessionRow(turn[t].user))
    /\ \E m \in Messages :
         SetTurn(t, Dispatch(t, turn[t],
                             NewSession(Len(user_sessions) + 1, turn[t].user), m))
    /\ DbUnchangedExcept({"user_sessions"})

----------------------------------------------------------------------------
\* handleCommand.

\* StartSession that also empties the context.
StartSession_ResetsContext(s) ==
    [s EXCEPT !.State = StateIdle, !.ContextData = Marshal(EmptyMap)]

\* case "start": what the handler does to its session.
StartSession(s) == [s EXCEPT !.State = StateIdle]

CmdStart(t) ==
    /\ turn[t].pc = "cmd_start"
    /\ LET s == StartSession(turn[t].session)
       IN /\ user_sessions' = UpdateUserSession(s)
          /\ SetTurn(t, Return(t, [turn[t] EXCEPT !.session = s], "ok"))
    /\ DbUnchangedExcept({"user_sessions"})

\* case "chat": the state is set and stored before the conversation starts.
CmdChat(t) ==
    /\ turn[t].pc = "cmd_chat"
    /\ LET s == [turn[t].session EXCEPT !.State = StateChat]
       IN /\ user_sessions' = UpdateUserSession(s)
          /\ SetTurn(t, [turn[t] EXCEPT !.session = s, !.pc = "cmd_chat_conv"])
    /\ DbUnchangedExcept({"user_sessions"})

\* StartConversation: the INSERT; the new row's id is its index.
NewConversation(u) == [userID |-> u]

\* case "chat": StartConversation; on an error the turn ends.
CmdChatStartConversation(t) ==
    /\ turn[t].pc = "cmd_chat_conv"
    /\ \E ok \in BOOLEAN :
         IF ok
         THEN /\ conversations' = Append(conversations, NewConversation(turn[t].user))
              /\ SetTurn(t, [turn[t] EXCEPT !.pc = "cmd_chat_save",
                                !.conversationID = Len(conversations) + 1])
              /\ DbUnchangedExcept({"conversations"})
         ELSE /\ SetTurn(t, Return(t, turn[t], "error"))
              /\ DbUnchangedExcept({})

\* ChatCommitSession that leaves the conversation's id out.
ChatCommitSession_NoID(s, conversationID) == s

\* case "chat": the session once the conversation is started.
ChatCommitSession(s, conversationID) ==
    [s EXCEPT !.ConversationID = Sprintf_d(conversationID)]

\* case "chat": the conversation's id is stored in the session.
CmdChatSave(t) ==
    /\ turn[t].pc = "cmd_chat_save"
    /\ LET s == ChatCommitSession(turn[t].session, turn[t].conversationID)
       IN /\ user_sessions' = UpdateUserSession(s)
          /\ SetTurn(t, Return(t, [turn[t] EXCEPT !.session = s], "ok"))
    /\ DbUnchangedExcept({"user_sessions"})

\* CheckSession that also empties the context.
CheckSession_ClearsContext(s) ==
    [s EXCEPT !.State = StateGrammarCheck, !.ContextData = Marshal(EmptyMap)]

\* case "check": what the handler does to its session.
CheckSession(s) == [s EXCEPT !.State = StateGrammarCheck]

CmdCheck(t) ==
    /\ turn[t].pc = "cmd_check"
    /\ LET s == CheckSession(turn[t].session)
       IN /\ user_sessions' = UpdateUserSession(s)
          /\ SetTurn(t, Return(t, [turn[t] EXCEPT !.session = s], "ok"))
    /\ DbUnchangedExcept({"user_sessions"})

\* case "exercise": the map contextData as first built.
ExerciseContext == [exerciseType |-> Word("grammar")]

\* ExerciseBeginSession that sets the state of the reply at once.
ExerciseBeginSession_Reply(s) ==
    [s EXCEPT !.State = StateExerciseReply,
              !.ContextData = Marshal(ExerciseContext)]

\* case "exercise": the session stored before the exercise is generated.
ExerciseBeginSession(s) ==
    [s EXCEPT !.State = StateExercise,
              !.ContextData = Marshal(ExerciseContext)]

CmdExercise(t) ==
    /\ turn[t].pc = "cmd_exercise"
    /\ LET s == ExerciseBeginSession(turn[t].session)
       IN /\ user_sessions' = UpdateUserSession(s)
          /\ SetTurn(t, [turn[t] EXCEPT !.session = s, !.pc = "cmd_exercise_gen"])
    /\ DbUnchangedExcept({"user_sessions"})

\* A nil dereference: the process dies, and with it every turn in flight.
Panic(t) ==
    [x \in Turns |->
        IF x = t THEN [turn[x] EXCEPT !.pc = "panic"]
        ELSE IF InFlight(x) THEN [turn[x] EXCEPT !.pc = "killed"]
        ELSE turn[x]]

\* SaveExercise: the INSERT; the new row's id is its index.
NewExercise == [type |-> "grammar", level |-> "A1", answer |-> <<>>]

\* case "exercise": GenerateExercise, then SaveExercise.  When the provider
\* fails the turn ends with the error message.  When SaveExercise fails the
\* error is logged and savedExercise, which is nil, is dereferenced.
CmdExerciseGenerate(t) ==
    /\ turn[t].pc = "cmd_exercise_gen"
    /\ \E res \in {"provider_error", "save_error", "ok"} :
         CASE res = "provider_error" ->
                /\ SetTurn(t, Return(t, turn[t], "error"))
                /\ DbUnchangedExcept({})
           [] res = "save_error" ->
                /\ turn' = Panic(t)
                /\ DbUnchangedExcept({})
           [] OTHER ->
                /\ exercises' = Append(exercises, NewExercise)
                /\ SetTurn(t, [turn[t] EXCEPT !.pc = "cmd_exercise_commit",
                                  !.savedExercise = Len(exercises) + 1])
                /\ DbUnchangedExcept({"exercises"})

\* ExerciseCommitSession that does not put the new context into the session.
ExerciseCommitSession_KeepsContext(s, exerciseID) ==
    [s EXCEPT !.State = StateExerciseReply]

\* case "exercise": the session stored once the exercise is saved.
ExerciseCommitSession(s, exerciseID) ==
    [s EXCEPT !.State = StateExerciseReply,
              !.ContextData = Marshal(MapSet(ExerciseContext, "exerciseID",
                                             Sprintf_d(exerciseID)))]

CmdExerciseCommit(t) ==
    /\ turn[t].pc = "cmd_exercise_commit"
    /\ LET s == ExerciseCommitSession(turn[t].session, turn[t].savedExercise)
       IN /\ user_sessions' = UpdateUserSession(s)
          /\ SetTurn(t, Return(t, [turn[t] EXCEPT !.session = s], "ok"))
    /\ DbUnchangedExcept({"user_sessions"})

----------------------------------------------------------------------------
\* handleMessageByState.

\* case StateChat, no conversation id in the session: StartConversation.
MsgChatStartConversation(t) ==
    /\ turn[t].pc = "msg_chat_conv"
    /\ \E ok \in BOOLEAN :
         IF ok
         THEN /\ conversations' = Append(conversations, NewConversation(turn[t].user))
              /\ SetTurn(t, [turn[t] EXCEPT !.pc = "msg_chat_save",
                                !.conversationID = Len(conversations) + 1])
              /\ DbUnchangedExcept({"conversations"})
         ELSE /\ SetTurn(t, Return(t, turn[t], "error"))
              /\ DbUnchangedExcept({})

\* ChatOpenSession that also resets the state.
ChatOpenSession_Resets(s, conversationID) ==
    [s EXCEPT !.State = StateIdle, !.ConversationID = Sprintf_d(conversationID)]

\* case StateChat: the session once a conversation is started for it.
ChatOpenSession(s, conversationID) ==
    [s EXCEPT !.ConversationID = Sprintf_d(conversationID)]

\* case StateChat: the new conversation's id is stored in the session.
MsgChatSave(t) ==
    /\ turn[t].pc = "msg_chat_save"
    /\ LET s == ChatOpenSession(turn[t].session, turn[t].conversationID)
       IN /\ user_sessions' = UpdateUserSession(s)
          /\ SetTurn(t, [turn[t] EXCEPT !.session = s, !.pc = "msg_chat_user"])
    /\ DbUnchangedExcept({"user_sessions"})

\* AddConversationMessage that does not count the message.
AddConversationMessage_NoCount(cid, role) ==
    IF cid \in DOMAIN conversations
    THEN /\ conversation_messages' =
               Append(conversation_messages, [conversationID |-> cid, role |-> role])
         /\ UNCHANGED user_progress
    ELSE UNCHANGED <<conversation_messages, user_progress>>

\* AddConversationMessage: the INSERT (conversation_id REFERENCES
\* conversations: without the conversation it fails and nothing follows),
\* then total_messages = total_messages + 1 on the progress row, if there is
\* one, of the conversation's user.  The statements are taken as one step.
AddConversationMessage(cid, role) ==
    IF cid \in DOMAIN conversations
    THEN /\ conversation_messages' =
               Append(conversation_messages, [conversationID |-> cid, role |-> role])
         /\ user_progress' =
               [user_progress EXCEPT ![conversations[cid].userID] =
                   IF @.exists THEN [@ EXCEPT !.TotalMessages = @ + 1] ELSE @]
    ELSE UNCHANGED <<conversation_messages, user_progress>>

\* case StateChat: the user's message is appended.
MsgChatUser(t) ==
    /\ turn[t].pc = "msg_chat_user"
    /\ AddConversationMessage(turn[t].conversationID, "user")
    /\ SetTurn(t, [turn[t] EXCEPT !.pc = "msg_chat_reply"])
    /\ DbUnchangedExcept({"conversation_messages", "user_progress"})

\* case StateChat: GenerateResponse; the reply is appended and
\* UpdateUserStreak called, or the turn ends with the error message.
MsgChatReply(t) ==
    /\ turn[t].pc = "msg_chat_reply"
    /\ \E ok \in BOOLEAN :
         IF ok
         THEN /\ AddConversationMessage(turn[t].conversationID, "bot")
              /\ SetTurn(t, [turn[t] EXCEPT !.pc = "progress_get", !.cont = "done"])
              /\ DbUnchangedExcept({"conversation_messages", "user_progress"})
         ELSE /\ SetTurn(t, Return(t, turn[t], "error"))
              /\ DbUnchangedExcept({})

\* GrammarDoneSession that leaves the state as it is.
GrammarDoneSession_KeepsState(s) == s

\* case StateGrammarCheck: the session once the result is sent.
GrammarDoneSession(s) == [s EXCEPT !.State = StateIdle]

\* case StateGrammarCheck: CheckGrammar; the state is reset and
\* UpdateUserStreak called, or the turn ends with the error message.
MsgGrammar(t) ==
    /\ turn[t].pc = "msg_grammar"
    /\ \E ok \in BOOLEAN :
         IF ok
         THEN LET s == GrammarDoneSession(turn[t].session)
              IN /\ user_sessions' = UpdateUserSession(s)
                 /\ SetTurn(t, [turn[t] EXCEPT !.session = s,
                                   !.pc = "progress_get", !.cont = "done"])
                 /\ DbUnchangedExcept({"user_sessions"})
         ELSE /\ SetTurn(t, Return(t, turn[t], "error"))
              /\ DbUnchangedExcept({})

\* SaveUserExercise that counts a correct answer without counting the attempt.
SaveUserExercise_CorrectOnly(u, exerciseID, userAnswer, isCorrect) ==
    IF exerciseID \in DOMAIN exercises
    THEN /\ user_exercises' =
               Append(user_exercises,
                      [userID |-> u, exerciseID |-> exerciseID,
                       userAnswer |-> userAnswer, isCorrect |-> isCorrect])
         /\ user_progress' =
               [user_progress EXCEPT ![u] =
                   IF @.exists
                   THEN [@ EXCEPT !.CorrectExercises = @ + (IF isCorrect THEN 1 ELSE 0)]
                   ELSE @]
    ELSE UNCHANGED <<user_exercises, user_progress>>

\* SaveUserExercise: the INSERT (exercise_id REFERENCES exercises: without
\* the exercise it fails and nothing follows), then total_exercises and
\* correct_exercises are raised on the user's progress row, if there is one.
\* The statements are taken as one step.
SaveUserExercise(u, exerciseID, userAnswer, isCorrect) ==
    IF exerciseID \in DOMAIN exercises
    THEN /\ user_exercises' =
               Append(user_exercises,
                      [userID |-> u, exerciseID |-> exerciseID,
                       userAnswer |-> userAnswer, isCorrect |-> isCorrect])
         /\ user_progress' =
               [user_progress EXCEPT ![u] =
                   IF @.exists
                   THEN [@ EXCEPT !.TotalExercises = @ + 1,
                                  !.CorrectExercises = @ + (IF isCorrect THEN 1 ELSE 0)]
                   ELSE @]
    ELSE UNCHANGED <<user_exercises, user_progress>>

\* The texts a user sends as the answer to an exercise.
ReplyTexts == {<<"c", "o", "r", "r", "e", "c", "t">>, <<"g", "o">>}

\* strings.Contains(strings.ToLower(text), "correct").
IsCorrect(text) ==
    Contains(ToLower(UTF8(text)), <<"c", "o", "r", "r", "e", "c", "t">>)

\* case StateExerciseReply: the context is parsed (on an error the turn ends
\* with the error message), the exercise id read from it, and the answer
\* saved; isCorrect is whether the text contains "correct".
MsgReply(t) ==
    /\ turn[t].pc = "msg_reply"
    /\ LET ctx == Unmarshal(turn[t].session.ContextData)
       IN IF ctx.err
          THEN /\ SetTurn(t, Return(t, turn[t], "error"))
               /\ DbUnchangedExcept({})
          ELSE /\ \E text \in ReplyTexts :
                    SaveUserExercise(turn[t].user,
                                     Sscanf_d(MapGet(ctx.val, "exerciseID")),
                                     text, IsCorrect(text))
               /\ SetTurn(t, [turn[t] EXCEPT !.pc = "msg_reply_reset"])
               /\ DbUnchangedExcept({"user_exercises", "user_progress"})

\* case StateExerciseReply: the state is reset and UpdateUserStreak called.
MsgReplyReset(t) ==
    /\ turn[t].pc = "msg_reply_reset"
    /\ LET s == [turn[t].session EXCEPT !.State = StateIdle]
       IN /\ user_sessions' = UpdateUserSession(s)
          /\ SetTurn(t, [turn[t] EXCEPT !.session = s,
                            !.pc = "progress_get", !.cont = "done"])
    /\ DbUnchangedExcept({"user_sessions"})

\* DefaultSession that leaves the state as it is.
DefaultSession_KeepsState(s) == s

\* default: what the handler does to its session.
DefaultSession(s) == [s EXCEPT !.State = StateIdle]

\* default: the state is reset.
MsgDefault(t) ==
    /\ turn[t].pc = "msg_default"
    /\ LET s == DefaultSession(turn[t].session)
       IN /\ user_sessions' = UpdateUserSession(s)
          /\ SetTurn(t, Return(t, [turn[t] EXCEPT !.session = s], "ok"))
    /\ DbUnchangedExcept({"user_sessions"})

----------------------------------------------------------------------------
\* Midnight passes.
AdvanceDay ==
    /\ today < MaxDay
    /\ today' = today + 1
    /\ UNCHANGED <<users, user_sessions, exercises, user_exercises, conversations,
                   conversation_messages, user_progress, user_achievements, turn,
                   call, limits, clock, updates>>

Next ==
    \/ \E t \in Turns : Receive(t)
    \/ \E t \in Turns : CreateUser(t)
    \/ \E t \in Turns : GetUserProgress(t)
    \/ \E t \in Turns : CreateUserProgress(t)
    \/ \E t \in Turns : UpdateUserStreak(t)
    \/ \E t \in Turns : GetUserSession(t)
    \/ \E t \in Turns : CreateUserSession(t)
    \/ \E t \in Turns : CmdStart(t)
    \/ \E t \in Turns : CmdChat(t)
    \/ \E t \in Turns : CmdChatStartConversation(t)
    \/ \E t \in Turns : CmdChatSave(t)
    \/ \E t \in Turns : CmdCheck(t)
    \/ \E t \in Turns : CmdExercise(t)
    \/ \E t \in Turns : CmdExerciseGenerate(t)
    \/ \E t \in Turns : CmdExerciseCommit(t)
    \/ \E t \in Turns : MsgChatStartConversation(t)
    \/ \E t \in Turns : MsgChatSave(t)
    \/ \E t \in Turns : MsgChatUser(t)
    \/ \E t \in Turns : MsgChatReply(t)
    \/ \E t \in Turns : MsgGrammar(t)
    \/ \E t \in Turns : MsgReply(t)
    \/ \E t \in Turns : MsgReplyReset(t)
    \/ \E t \in Turns : MsgDefault(t)
    \/ AdvanceDay

\* AddUserAchievement is no step of Next: a streak of seven days takes seven
\* days, and the runs of Next are shorter.
Spec == Init /\ [][Next]_vars

\* Runs of one turn more than Spec.
SpecLong == InitLong /\ [][Next]_vars

----------------------------------------------------------------------------
\* The bot started on a store that is already there: it is empty, or the
\* user, the progress row and one exercise exist and the user's session row
\* holds any state and any context_data, also one that this program does not
\* write.

StoredContexts ==
    { JsonOther,
      JsonObject(EmptyMap),
      JsonObject(ExerciseContext),
      JsonObject(MapSet(ExerciseContext, "exerciseID", Sprintf_d(1))),
      JsonObject(MapSet(ExerciseContext, "exerciseID", Sprintf_d(7))) }

\* The states a stored row may hold: state is a VARCHAR(50), any text.
StoredStates == States \cup {"unknown"}

StoredRows ==
    /\ users = Users
    /\ \E st \in StoredStates, c \in StoredContexts :
         user_sessions = << [userID |-> 1, state |-> st, contextData |-> c,
                             conversationID |-> <<>>] >>
    /\ exercises = <<NewExercise>>
    /\ user_exercises = <<>>
    /\ conversations = <<>>
    /\ conversation_messages = <<>>
    /\ user_progress = [u \in Users |-> NewProgress(0)]
    /\ user_achievements = <<>>
    /\ today = 0
    /\ call = NoCall
    /\ NewRateLimiter

InitStored ==
    /\ (EmptyStore \/ StoredRows)
    /\ turn = [t \in 1..MaxTurns |-> NoTurn]

SpecStored == InitStored /\ [][Next]_vars

----------------------------------------------------------------------------
\* UpdateUserStreak called on its own, on a store that is empty or holds the
\* user with a progress row of any streak, last active up to two days ago.

\* The streaks of a stored row: the short ones, and those one day before an
\* achievement.
StoredStreaks == (0..MaxStreak) \cup {n - 1 : n \in StreakAchievements}

StoredProgress ==
    {NoProgress} \cup
    { [NoProgress EXCEPT !.exists = TRUE, !.CurrentStreak = c,
                         !.LongestStreak = l, !.LastActivityDate = d] :
        c \in StoredStreaks, l \in StoredStreaks, d \in (0 - 2)..0 }

InitStreak ==
    /\ users = Users
    /\ user_sessions = <<>>
    /\ exercises = <<>>
    /\ user_exercises = <<>>
    /\ conversations = <<>>
    /\ conversation_messages = <<>>
    /\ \E p \in StoredProgress :
         /\ p.CurrentStreak <= p.LongestStreak
         /\ user_progress = [u \in Users |-> p]
    /\ user_achievements = <<>>
    /\ today = 0
    /\ call = NoCall
    /\ NewRateLimiter
    /\ turn = [t \in 1..(MaxTurns + 1) |-> NoTurn]

\* A call of UpdateUserStreak for a user begins.
RecordActivity(t) ==
    /\ turn[t].pc = "new"
    /\ IF t = 1 THEN TRUE ELSE turn[t - 1].pc # "new"
    /\ Cardinality({x \in Turns : InFlight(x)}) < MaxInFlight
    /\ \E u \in Users :
         SetTurn(t, [turn[t] EXCEPT !.user = u, !.msg = "activity",
                                    !.pc = "progress_get", !.cont = "done"])
    /\ DbUnchangedExcept({})

NextRecord ==
    \/ \E t \in Turns : RecordActivity(t)
    \/ \E t \in Turns : GetUserProgress(t)
    \/ \E t \in Turns : CreateUserProgress(t)
    \/ \E t \in Turns : UpdateUserStreak(t)
    \/ \E t \in Turns : AddUserAchievementSelect(t)
    \/ \E t \in Turns : AddUserAchievementInsert(t)
    \/ AdvanceDay

SpecStreak == InitStreak /\ [][NextRecord]_vars

----------------------------------------------------------------------------
\* Calls of CheckAnswer and levenshteinRatio on their own.

\* A call of a function of ExerciseService changes nothing of the store and
\* of the turns.
OnlyCall ==
    UNCHANGED <<users, user_sessions, exercises, user_exercises, conversations,
                conversation_messages, user_progress, user_achievements, today,
                turn, limits, clock, updates>>

\* levenshteinRatio is called with two texts.
LevenshteinRatioCall ==
    /\ call = NoCall
    /\ \E a \in Texts, b \in Texts :
         call' = [op |-> "levenshteinRatio", a |-> a, b |-> b,
                  dist |-> levenshteinDistance(UTF8(a), UTF8(b)),
                  ratio |-> levenshteinRatio(UTF8(a), UTF8(b))]
    /\ OnlyCall

\* CheckAnswer is called with an exercise and the answer of a user.
CheckAnswerCall ==
    /\ call = NoCall
    /\ \E answer \in Answers, userAnswer \in UserAnswers :
         call' = [op |-> "CheckAnswer", answer |-> answer,
                  userAnswer |-> userAnswer,
                  score |-> CheckAnswer(UTF8(answer), UTF8(userAnswer))]
    /\ OnlyCall

NextScorer ==
    \/ LevenshteinRatioCall
    \/ CheckAnswerCall

\* One call of the scorer or the evaluator: they keep nothing from a call to
\* the next.
SpecScorer == Init /\ [][NextScorer]_vars

----------------------------------------------------------------------------
\* ExerciseService: GenerateSimpleExercise.  The strings are Go strings,
\* sequences of bytes.

ExerciseTypes == {"grammar", "vocabulary", "translation", "listening", "speaking"}
EnglishLevels == {"A1", "A2", "B1", "B2", "C1", "C2"}

\* strings.Index(s, c) for a c of one byte: the place of the first c, from 0,
\* and -1 when there is none.
Index(s, c) ==
    IF \E i \in DOMAIN s : s[i] = c
    THEN (CHOOSE i \in DOMAIN s : s[i] = c /\ \A k \in 1..(i - 1) : s[k] # c) - 1
    ELSE 0 - 1

\* s[from:to] of a Go string.
Slice(s, from, to) == SubSeq(s, from + 1, to)

\* extractOptions that keeps the parentheses.
extractOptions_WithParens(content) ==
    LET start == Index(content, "(")
        end == Index(content, ")")
    IN IF start # 0 - 1 /\ end # 0 - 1 /\ start < end
       THEN Slice(content, start, end + 1)
       ELSE <<>>

\* extractOptions: what stands between the first "(" and the first ")".
extractOptions(content) ==
    LET start == Index(content, "(")
        end == Index(content, ")")
    IN IF start # 0 - 1 /\ end # 0 - 1 /\ start < end
       THEN Slice(content, start + 1, end)
       ELSE <<>>

\* cleanExerciseContent that leaves the content as it is.
cleanExerciseContent_Keeps(content) == content

\* cleanExerciseContent: the first "(" up to the first ")" is replaced by a
\* blank of five "_" and a space.
cleanExerciseContent(content) ==
    LET start == Index(content, "(")
        end == Index(content, ")")
    IN IF start # 0 - 1 /\ end # 0 - 1 /\ start < end
       THEN Slice(content, 0, start) \o <<"_", "_", "_", "_", "_", " ">>
               \o Slice(content, end + 1, Len(content))
       ELSE content

\* The instruction of the exercises on tenses.
TensesInstruction ==
    <<"C", "h", "o", "o", "s", "e", " ", "t", "h", "e", " ", "c", "o", "r",
      "r", "e", "c", "t", " ", "f", "o", "r", "m", " ", "o", "f", " ", "t",
      "h", "e", " ", "v", "e", "r", "b", " ", "t", "o", " ", "c", "o", "m",
      "p", "l", "e", "t", "e", " ", "t", "h", "e", " ", "s", "e", "n", "t",
      "e", "n", "c", "e", ".">>

\* Present Simple or Present Continuous.
TensesSentences ==
    << <<"I", " ", "u", "s", "u", "a", "l", "l", "y", " ", "(", "g", "o",
         "/", "a", "m", " ", "g", "o", "i", "n", "g", ")", " ", "t", "o",
         " ", "w", "o", "r", "k", " ", "b", "y", " ", "b", "u", "s", ".">>,
       <<"S", "h", "e", " ", "(", "s", "p", "e", "a", "k", "s", "/", "i",
         "s", " ", "s", "p", "e", "a", "k", "i", "n", "g", ")", " ", "o",
         "n", " ", "t", "h", "e", " ", "p", "h", "o", "n", "e", " ", "r",
         "i", "g", "h", "t", " ", "n", "o", "w", ".">>,
       <<"T", "h", "e", "y", " ", "(", "d", "o", "n", "'", "t", " ", "l",
         "i", "k", "e", "/", "a", "r", "e", "n", "'", "t", " ", "l", "i",
         "k", "i", "n", "g", ")", " ", "c", "o", "f", "f", "e", "e", ".">>,
       <<"W", "h", "a", "t", " ", "(", "d", "o", " ", "y", "o", "u", " ",
         "d", "o", "/", "a", "r", "e", " ", "y", "o", "u", " ", "d", "o",
         "i", "n", "g", ")", " ", "t", "h", "i", "s", " ", "w", "e", "e",
         "k", "e", "n", "d", "?">>,
       <<"H", "e", " ", "(", "d", "o", "e", "s", "n", "'", "t", " ", "w",
         "o", "r", "k", "/", "i", "s", "n", "'", "t", " ", "w", "o", "r",
         "k", "i", "n", "g", ")", " ", "t", "o", "d", "a", "y", " ", "b",
         "e", "c", "a", "u", "s", "e", " ", "h", "e", " ", "i", "s", " ",
         "s", "i", "c", "k", ".">> >>

\* The answers to them.
TensesAnswers ==
    << <<"g", "o">>,
       <<"i", "s", " ", "s", "p", "e", "a", "k", "i", "n", "g">>,
       <<"d", "o", "n", "'", "t", " ", "l", "i", "k", "e">>,
       <<"a", "r", "e", " ", "y", "o", "u", " ", "d", "o", "i", "n", "g">>,
       <<"i", "s", "n", "'", "t", " ", "w", "o", "r", "k", "i", "n", "g">> >>

\* The instruction of the exercises on conditional sentences.
ConditionalInstruction ==
    <<"C", "o", "m", "p", "l", "e", "t", "e", " ", "t", "h", "e", " ", "c",
      "o", "n", "d", "i", "t", "i", "o", "n", "a", "l", " ", "s", "e", "n",
      "t", "e", "n", "c", "e", " ", "w", "i", "t", "h", " ", "t", "h", "e",
      " ", "c", "o", "r", "r", "e", "c", "t", " ", "f", "o", "r", "m", " ",
      "o", "f", " ", "t", "h", "e", " ", "v", "e", "r", "b", " ", "i", "n",
      " ", "b", "r", "a", "c", "k", "e", "t", "s", ".">>

\* Conditional sentences.
ConditionalSentences ==
    << <<"I", "f", " ", "I", " ", "(", "h", "a", "v", "e", ")", " ", "m",
         "o", "r", "e", " ", "t", "i", "m", "e", ",", " ", "I", " ", "w",
         "o", "u", "l", "d", " ", "l", "e", "a", "r", "n", " ", "a", "n",
         "o", "t", "h", "e", "r", " ", "l", "a", "n", "g", "u", "a", "g",
         "e", ".">>,
       <<"S", "h", "e", " ", "w", "o", "u", "l", "d", " ", "h", "a", "v",
         "e", " ", "p", "a", "s", "s", "e", "d", " ", "t", "h", "e", " ",
         "e", "x", "a", "m", " ", "i", "f", " ", "s", "h", "e", " ", "(",
         "s", "t", "u", "d", "y", ")", " ", "h", "a", "r", "d", "e", "r",
         ".">>,
       <<"I", "f", " ", "y", "o", "u", " ", "(", "c", "a", "l", "l", ")",
         " ", "m", "e", " ", "e", "a", "r", "l", "i", "e", "r", ",", " ",
         "I", " ", "w", "o", "u", "l", "d", " ", "h", "a", "v", "e", " ",
         "p", "i", "c", "k", "e", "d", " ", "y", "o", "u", " ", "u", "p",
         ".">>,
       <<"W", "h", "a", "t", " ", "w", "o", "u", "l", "d", " ", "y", "o",
         "u", " ", "d", "o", " ", "i", "f", " ", "y", "o", "u", " ", "(",
         "w", "i", "n", ")", " ", "t", "h", "e", " ", "l", "o", "t", "t",
         "e", "r", "y", "?">>,
       <<"H", "e", " ", "(", "t", "r", "a", "v", "e", "l", ")", " ", "a",
         "r", "o", "u", "n", "d", " ", "t", "h", "e", " ", "w", "o", "r",
         "l", "d", " ", "i", "f", " ", "h", "e", " ", "d", "i", "d", "n",
         "'", "t", " ", "h", "a", "v", "e", " ", "t", "o", " ", "w", "o",
         "r", "k", ".">> >>

\* The answers to them.
ConditionalAnswers ==
    << <<"h", "a", "d">>,
       <<"h", "a", "d", " ", "s", "t", "u", "d", "i", "e", "d">>,
       <<"h", "a", "d", " ", "c", "a", "l", "l", "e", "d">>,
       <<"w", "o", "n">>,
       <<"w", "o", "u", "l", "d", " ", "t", "r", "a", "v", "e", "l">> >>

\* The instruction of the vocabulary exercises.
VocabularyInstruction ==
    <<"F", "i", "l", "l", " ", "i", "n", " ", "t", "h", "e", " ", "b", "l",
      "a", "n", "k", " ", "w", "i", "t", "h", " ", "t", "h", "e", " ", "c",
      "o", "r", "r", "e", "c", "t", " ", "w", "o", "r", "d", " ", "f", "r",
      "o", "m", " ", "t", "h", "e", " ", "o", "p", "t", "i", "o", "n", "s",
      ".">>

\* Vocabulary for beginners.
SimpleWordSentences ==
    << <<"I", " ", "n", "e", "e", "d", " ", "t", "o", " ", "_", "_", "_",
         "_", "_", " ", "(", "b", "u", "y", "/", "s", "e", "l", "l", "/",
         "g", "i", "v", "e", ")", " ", "s", "o", "m", "e", " ", "f", "o",
         "o", "d", " ", "f", "o", "r", " ", "d", "i", "n", "n", "e", "r",
         ".">>,
       <<"S", "h", "e", " ", "_", "_", "_", "_", "_", " ", "(", "l", "i",
         "v", "e", "s", "/", "w", "o", "r", "k", "s", "/", "s", "t", "u",
         "d", "i", "e", "s", ")", " ", "i", "n", " ", "L", "o", "n", "d",
         "o", "n", " ", "w", "i", "t", "h", " ", "h", "e", "r", " ", "f",
         "a", "m", "i", "l", "y", ".">>,
       <<"W", "e", " ", "u", "s", "u", "a", "l", "l", "y", " ", "_", "_",
         "_", "_", "_", " ", "(", "h", "a", "v", "e", "/", "t", "a", "k",
         "e", "/", "d", "o", ")", " ", "b", "r", "e", "a", "k", "f", "a",
         "s", "t", " ", "a", "t", " ", "8", " ", "A", "M", ".">>,
       <<"T", "h", "e", "y", " ", "d", "o", "n", "'", "t", " ", "_", "_",
         "_", "_", "_", " ", "(", "l", "i", "k", "e", "/", "w", "a", "n",
         "t", "/", "n", "e", "e", "d", ")", " ", "t", "o", " ", "w", "a",
         "t", "c", "h", " ", "T", "V", " ", "i", "n", " ", "t", "h", "e",
         " ", "e", "v", "e", "n", "i", "n", "g", ".">>,
       <<"C", "a", "n", " ", "y", "o", "u", " ", "_", "_", "_", "_", "_",
         " ", "(", "o", "p", "e", "n", "/", "c", "l", "o", "s", "e", "/",
         "l", "o", "c", "k", ")", " ", "t", "h", "e", " ", "w", "i", "n",
         "d", "o", "w", ",", " ", "p", "l", "e", "a", "s", "e", "?">> >>

\* The answers to them.
SimpleWordAnswers ==
    << <<"b", "u", "y">>,
       <<"l", "i", "v", "e", "s">>,
       <<"h", "a", "v", "e">>,
       <<"l", "i", "k", "e">>,
       <<"o", "p", "e", "n">> >>

\* Vocabulary for advanced learners.
AdvancedWordSentences ==
    << <<"T", "h", "e", " ", "g", "o", "v", "e", "r", "n", "m", "e", "n",
         "t", " ", "i", "m", "p", "l", "e", "m", "e", "n", "t", "e", "d",
         " ", "_", "_", "_", "_", "_", " ", "(", "s", "t", "r", "i", "n",
         "g", "e", "n", "t", "/", "l", "e", "n", "i", "e", "n", "t", "/",
         "a", "m", "b", "i", "g", "u", "o", "u", "s", ")", " ", "m", "e",
         "a", "s", "u", "r", "e", "s", " ", "t", "o", " ", "c", "o", "n",
         "t", "r", "o", "l", " ", "t", "h", "e", " ", "s", "p", "r", "e",
         "a", "d", " ", "o", "f", " ", "t", "h", "e", " ", "v", "i", "r",
         "u", "s", ".">>,
       <<"H", "e", "r", " ", "_", "_", "_", "_", "_", " ", "(", "e", "l",
         "o", "q", "u", "e", "n", "t", "/", "r", "e", "t", "i", "c", "e",
         "n", "t", "/", "v", "e", "r", "b", "o", "s", "e", ")", " ", "s",
         "p", "e", "e", "c", "h", " ", "c", "a", "p", "t", "i", "v", "a",
         "t", "e", "d", " ", "t", "h", "e", " ", "e", "n", "t", "i", "r",
         "e", " ", "a", "u", "d", "i", "e", "n", "c", "e", ".">>,
       <<"T", "h", "e", " ", "s", "c", "a", "n", "d", "a", "l", " ", "h",
         "a", "d", " ", "a", " ", "_", "_", "_", "_", "_", " ", "(", "d",
         "e", "t", "r", "i", "m", "e", "n", "t", "a", "l", "/", "b", "e",
         "n", "e", "f", "i", "c", "i", "a", "l", "/", "n", "e", "u", "t",
         "r", "a", "l", ")", " ", "e", "f", "f", "e", "c", "t", " ", "o",
         "n", " ", "h", "i", "s", " ", "r", "e", "p", "u", "t", "a", "t",
         "i", "o", "n", ".">>,
       <<"S", "c", "i", "e", "n", "t", "i", "s", "t", "s", " ", "h", "a",
         "v", "e", " ", "_", "_", "_", "_", "_", " ", "(", "c", "o", "r",
         "r", "o", "b", "o", "r", "a", "t", "e", "d", "/", "r", "e", "f",
         "u", "t", "e", "d", "/", "i", "g", "n", "o", "r", "e", "d", ")",
         " ", "t", "h", "e", " ", "t", "h", "e", "o", "r", "y", " ", "w",
         "i", "t", "h", " ", "n", "e", "w", " ", "e", "v", "i", "d", "e",
         "n", "c", "e", ".">>,
       <<"T", "h", "e", " ", "c", "o", "m", "p", "a", "n", "y", " ", "i",
         "s", " ", "f", "a", "c", "i", "n", "g", " ", "_", "_", "_", "_",
         "_", " ", "(", "u", "n", "p", "r", "e", "c", "e", "d", "e", "n",
         "t", "e", "d", "/", "e", "x", "p", "e", "c", "t", "e", "d", "/",
         "m", "i", "n", "i", "m", "a", "l", ")", " ", "c", "h", "a", "l",
         "l", "e", "n", "g", "e", "s", " ", "d", "u", "e", " ", "t", "o",
         " ", "e", "c", "o", "n", "o", "m", "i", "c", " ", "c", "h", "a",
         "n", "g", "e", "s", ".">> >>

\* The answers to them.
AdvancedWordAnswers ==
    << <<"s", "t", "r", "i", "n", "g", "e", "n", "t">>,
       <<"e", "l", "o", "q", "u", "e", "n", "t">>,
       <<"d", "e", "t", "r", "i", "m", "e", "n", "t", "a", "l">>,
       <<"c", "o", "r", "r", "o", "b", "o", "r", "a", "t", "e", "d">>,
       <<"u", "n", "p", "r", "e", "c", "e", "d", "e", "n", "t", "e", "d">> >>

\* The instruction of the translation exercises.
TranslationInstruction ==
    <<"T", "r", "a", "n", "s", "l", "a", "t", "e", " ", "t", "h", "e", " ",
      "f", "o", "l", "l", "o", "w", "i", "n", "g", " ", "s", "e", "n", "t",
      "e", "n", "c", "e", " ", "i", "n", "t", "o", " ", "E", "n", "g", "l",
      "i", "s", "h", ".">>

\* Russian sentences for beginners, in UTF-8.
SimpleTranslationSentences ==
    << <<"0xD0", "0x9C", "0xD0", "0xB5", "0xD0", "0xBD", "0xD1", "0x8F",
         " ", "0xD0", "0xB7", "0xD0", "0xBE", "0xD0", "0xB2", "0xD1",
         "0x83", "0xD1", "0x82", " ", "0xD0", "0x98", "0xD0", "0xB2",
         "0xD0", "0xB0", "0xD0", "0xBD", ".", " ", "0xD0", "0xAF", " ",
         "0xD0", "0xB6", "0xD0", "0xB8", "0xD0", "0xB2", "0xD1", "0x83",
         " ", "0xD0", "0xB2", " ", "0xD0", "0x9C", "0xD0", "0xBE", "0xD1",
         "0x81", "0xD0", "0xBA", "0xD0", "0xB2", "0xD0", "0xB5", ".">>,
       <<"0xD0", "0xA3", " ", "0xD0", "0xBC", "0xD0", "0xB5", "0xD0",
         "0xBD", "0xD1", "0x8F", " ", "0xD0", "0xB5", "0xD1", "0x81",
         "0xD1", "0x82", "0xD1", "0x8C", " ", "0xD1", "0x81", "0xD0",
         "0xBE", "0xD0", "0xB1", "0xD0", "0xB0", "0xD0", "0xBA", "0xD0",
         "0xB0", " ", "0xD0", "0xB8", " ", "0xD0", "0xBA", "0xD0", "0xBE",
         "0xD1", "0x88", "0xD0", "0xBA", "0xD0", "0xB0", ".">>,
       <<"0xD0", "0xAF", " ", "0xD0", "0xBB", "0xD1", "0x8E", "0xD0",
         "0xB1", "0xD0", "0xBB", "0xD1", "0x8E", " ", "0xD0", "0xBF",
         "0xD0", "0xB8", "0xD1", "0x86", "0xD1", "0x86", "0xD1", "0x83",
         " ", "0xD0", "0xB8", " ", "0xD0", "0xBC", "0xD0", "0xBE", "0xD1",
         "0x80", "0xD0", "0xBE", "0xD0", "0xB6", "0xD0", "0xB5", "0xD0",
         "0xBD", "0xD0", "0xBE", "0xD0", "0xB5", ".">>,
       <<"0xD0", "0xA1", "0xD0", "0xB5", "0xD0", "0xB3", "0xD0", "0xBE",
         "0xD0", "0xB4", "0xD0", "0xBD", "0xD1", "0x8F", " ", "0xD1",
         "0x85", "0xD0", "0xBE", "0xD1", "0x80", "0xD0", "0xBE", "0xD1",
         "0x88", "0xD0", "0xB0", "0xD1", "0x8F", " ", "0xD0", "0xBF",
         "0xD0", "0xBE", "0xD0", "0xB3", "0xD0", "0xBE", "0xD0", "0xB4",
         "0xD0", "0xB0", ".">>,
       <<"0xD0", "0xAF", " ", "0xD1", "0x83", "0xD1", "0x87", "0xD1",
         "0x83", " ", "0xD0", "0xB0", "0xD0", "0xBD", "0xD0", "0xB3",
         "0xD0", "0xBB", "0xD0", "0xB8", "0xD0", "0xB9", "0xD1", "0x81",
         "0xD0", "0xBA", "0xD0", "0xB8", "0xD0", "0xB9", " ", "0xD1",
         "0x8F", "0xD0", "0xB7", "0xD1", "0x8B", "0xD0", "0xBA", " ",
         "0xD0", "0xB4", "0xD0", "0xB2", "0xD0", "0xB0", " ", "0xD0",
         "0xB3", "0xD0", "0xBE", "0xD0", "0xB4", "0xD0", "0xB0", ".">> >>

\* Their translations.
SimpleTranslationAnswers ==
    << <<"M", "y", " ", "n", "a", "m", "e", " ", "i", "s", " ", "I", "v",
         "a", "n", ".", " ", "I", " ", "l", "i", "v", "e", " ", "i", "n",
         " ", "M", "o", "s", "c", "o", "w", ".">>,
       <<"I", " ", "h", "a", "v", "e", " ", "a", " ", "d", "o", "g", " ",
         "a", "n", "d", " ", "a", " ", "c", "a", "t", ".">>,
       <<"I", " ", "l", "i", "k", "e", "/", "l", "o", "v", "e", " ", "p",
         "i", "z", "z", "a", " ", "a", "n", "d", " ", "i", "c", "e", " ",
         "c", "r", "e", "a", "m", ".">>,
       <<"T", "h", "e", " ", "w", "e", "a", "t", "h", "e", "r", " ", "i",
         "s", " ", "g", "o", "o", "d", " ", "t", "o", "d", "a", "y", ".">>,
       <<"I", " ", "h", "a", "v", "e", " ", "b", "e", "e", "n", " ", "l",
         "e", "a", "r", "n", "i", "n", "g", " ", "E", "n", "g", "l", "i",
         "s", "h", " ", "f", "o", "r", " ", "t", "w", "o", " ", "y", "e",
         "a", "r", "s", ".">> >>

\* Russian sentences for advanced learners, in UTF-8.
AdvancedTranslationSentences ==
    << <<"0xD0", "0x9D", "0xD0", "0xB5", "0xD1", "0x81", "0xD0", "0xBC",
         "0xD0", "0xBE", "0xD1", "0x82", "0xD1", "0x80", "0xD1", "0x8F",
         " ", "0xD0", "0xBD", "0xD0", "0xB0", " ", "0xD0", "0xB2", "0xD1",
         "0x81", "0xD0", "0xB5", " ", "0xD1", "0x82", "0xD1", "0x80",
         "0xD1", "0x83", "0xD0", "0xB4", "0xD0", "0xBD", "0xD0", "0xBE",
         "0xD1", "0x81", "0xD1", "0x82", "0xD0", "0xB8", ",", " ", "0xD0",
         "0xBE", "0xD0", "0xBD", " ", "0xD0", "0xBF", "0xD1", "0x80",
         "0xD0", "0xBE", "0xD0", "0xB4", "0xD0", "0xBE", "0xD0", "0xBB",
         "0xD0", "0xB6", "0xD0", "0xB0", "0xD0", "0xBB", " ", "0xD0",
         "0xB8", "0xD0", "0xB4", "0xD1", "0x82", "0xD0", "0xB8", " ",
         "0xD0", "0xBA", " ", "0xD1", "0x81", "0xD0", "0xB2", "0xD0",
         "0xBE", "0xD0", "0xB5", "0xD0", "0xB9", " ", "0xD1", "0x86",
         "0xD0", "0xB5", "0xD0", "0xBB", "0xD0", "0xB8", ".">>,
       <<"0xD0", "0x95", "0xD1", "0x81", "0xD0", "0xBB", "0xD0", "0xB8",
         " ", "0xD0", "0xB1", "0xD1", "0x8B", " ", "0xD1", "0x8F", " ",
         "0xD0", "0xB7", "0xD0", "0xBD", "0xD0", "0xB0", "0xD0", "0xBB",
         " ", "0xD0", "0xBE", "0xD0", "0xB1", " ", "0xD1", "0x8D", "0xD1",
         "0x82", "0xD0", "0xBE", "0xD0", "0xBC", " ", "0xD1", "0x80",
         "0xD0", "0xB0", "0xD0", "0xBD", "0xD1", "0x8C", "0xD1", "0x88",
         "0xD0", "0xB5", ",", " ", "0xD1", "0x8F", " ", "0xD0", "0xB1",
         "0xD1", "0x8B", " ", "0xD0", "0xBF", "0xD1", "0x80", "0xD0",
         "0xB8", "0xD0", "0xBD", "0xD1", "0x8F", "0xD0", "0xBB", " ",
         "0xD0", "0xB4", "0xD1", "0x80", "0xD1", "0x83", "0xD0", "0xB3",
         "0xD0", "0xBE", "0xD0", "0xB5", " ", "0xD1", "0x80", "0xD0",
         "0xB5", "0xD1", "0x88", "0xD0", "0xB5", "0xD0", "0xBD", "0xD0",
         "0xB8", "0xD0", "0xB5", ".">>,
       <<"0xD0", "0xA7", "0xD0", "0xB5", "0xD0", "0xBC", " ", "0xD0",
         "0xB1", "0xD0", "0xBE", "0xD0", "0xBB", "0xD1", "0x8C", "0xD1",
         "0x88", "0xD0", "0xB5", " ", "0xD1", "0x8F", " ", "0xD0", "0xBE",
         "0xD0", "0xB1", " ", "0xD1", "0x8D", "0xD1", "0x82", "0xD0",
         "0xBE", "0xD0", "0xBC", " ", "0xD0", "0xB4", "0xD1", "0x83",
         "0xD0", "0xBC", "0xD0", "0xB0", "0xD1", "0x8E", ",", " ", "0xD1",
         "0x82", "0xD0", "0xB5", "0xD0", "0xBC", " ", "0xD0", "0xBC",
         "0xD0", "0xB5", "0xD0", "0xBD", "0xD1", "0x8C", "0xD1", "0x88",
         "0xD0", "0xB5", " ", "0xD0", "0xBC", "0xD0", "0xBD", "0xD0",
         "0xB5", " ", "0xD1", "0x8D", "0xD1", "0x82", "0xD0", "0xBE", " ",
         "0xD0", "0xBD", "0xD1", "0x80", "0xD0", "0xB0", "0xD0", "0xB2",
         "0xD0", "0xB8", "0xD1", "0x82", "0xD1", "0x81", "0xD1", "0x8F", ".">>,
       <<"0xD0", "0x9A", "0xD0", "0xBE", "0xD0", "0xBC", "0xD0", "0xBF",
         "0xD0", "0xB0", "0xD0", "0xBD", "0xD0", "0xB8", "0xD1", "0x8F",
         " ", "0xD0", "0xBE", "0xD0", "0xB1", "0xD1", "0x8A", "0xD1",
         "0x8F", "0xD0", "0xB2", "0xD0", "0xB8", "0xD0", "0xBB", "0xD0",
         "0xB0", " ", "0xD0", "0xBE", " ", "0xD1", "0x81", "0xD0", "0xBE",
         "0xD0", "0xBA", "0xD1", "0x80", "0xD0", "0xB0", "0xD1", "0x89",
         "0xD0", "0xB5", "0xD0", "0xBD", "0xD0", "0xB8", "0xD0", "0xB8",
         " ", "0xD1", "0x88", "0xD1", "0x82", "0xD0", "0xB0", "0xD1",
         "0x82", "0xD0", "0xB0", " ", "0xD0", "0xB8", "0xD0", "0xB7", "-",
         "0xD0", "0xB7", "0xD0", "0xB0", " ", "0xD1", "0x8D", "0xD0",
         "0xBA", "0xD0", "0xBE", "0xD0", "0xBD", "0xD0", "0xBE", "0xD0",
         "0xBC", "0xD0", "0xB8", "0xD1", "0x87", "0xD0", "0xB5", "0xD1",
         "0x81", "0xD0", "0xBA", "0xD0", "0xBE", "0xD0", "0xB3", "0xD0",
         "0xBE", " ", "0xD0", "0xBA", "0xD1", "0x80", "0xD0", "0xB8",
         "0xD0", "0xB7", "0xD0", "0xB8", "0xD1", "0x81", "0xD0", "0xB0", ".">>,
       <<"0xD0", "0x9D", "0xD0", "0xB5", "0xD0", "0xBE", "0xD0", "0xB1",
         "0xD1", "0x85", "0xD0", "0xBE", "0xD0", "0xB4", "0xD0", "0xB8",
         "0xD0", "0xBC", "0xD0", "0xBE", " ", "0xD1", "0x80", "0xD0",
         "0xB0", "0xD0", "0xB7", "0xD1", "0x80", "0xD0", "0xB0", "0xD0",
         "0xB1", "0xD0", "0xBE", "0xD1", "0x82", "0xD0", "0xB0", "0xD1",
         "0x82", "0xD1", "0x8C", " ", "0xD0", "0xBA", "0xD0", "0xBE",
         "0xD0", "0xBC", "0xD0", "0xBF", "0xD0", "0xBB", "0xD0", "0xB5",
         "0xD0", "0xBA", "0xD1", "0x81", "0xD0", "0xBD", "0xD1", "0x8B",
         "0xD0", "0xB9", " ", "0xD0", "0xBF", "0xD0", "0xBE", "0xD0",
         "0xB4", "0xD1", "0x85", "0xD0", "0xBE", "0xD0", "0xB4", " ",
         "0xD0", "0xBA", " ", "0xD1", "0x80", "0xD0", "0xB5", "0xD1",
         "0x88", "0xD0", "0xB5", "0xD0", "0xBD", "0xD0", "0xB8", "0xD1",
         "0x8E", " ", "0xD0", "0xB4", "0xD0", "0xB0", "0xD0", "0xBD",
         "0xD0", "0xBD", "0xD0", "0xBE", "0xD0", "0xB9", " ", "0xD0",
         "0xBF", "0xD1", "0x80", "0xD0", "0xBE", "0xD0", "0xB1", "0xD0",
         "0xBB", "0xD0", "0xB5", "0xD0", "0xBC", "0xD1", "0x8B", ".">> >>

\* Their translations.
AdvancedTranslationAnswers ==
    << <<"D", "e", "s", "p", "i", "t", "e", " ", "a", "l", "l", " ", "t",
         "h", "e", " ", "d", "i", "f", "f", "i", "c", "u", "l", "t", "i",
         "e", "s", ",", " ", "h", "e", " ", "c", "o", "n", "t", "i", "n",
         "u", "e", "d", " ", "m", "o", "v", "i", "n", "g", " ", "t", "o",
         "w", "a", "r", "d", "s", " ", "h", "i", "s", " ", "g", "o", "a",
         "l", ".">>,
       <<"I", "f", " ", "I", " ", "h", "a", "d", " ", "k", "n", "o", "w",
         "n", " ", "a", "b", "o", "u", "t", " ", "t", "h", "i", "s", " ",
         "e", "a", "r", "l", "i", "e", "r", ",", " ", "I", " ", "w", "o",
         "u", "l", "d", " ", "h", "a", "v", "e", " ", "m", "a", "d", "e",
         " ", "a", " ", "d", "i", "f", "f", "e", "r", "e", "n", "t", " ",
         "d", "e", "c", "i", "s", "i", "o", "n", ".">>,
       <<"T", "h", "e", " ", "m", "o", "r", "e", " ", "I", " ", "t", "h",
         "i", "n", "k", " ", "a", "b", "o", "u", "t", " ", "i", "t", ",",
         " ", "t", "h", "e", " ", "l", "e", "s", "s", " ", "I", " ", "l",
         "i", "k", "e", " ", "i", "t", ".">>,
       <<"T", "h", "e", " ", "c", "o", "m", "p", "a", "n", "y", " ", "a",
         "n", "n", "o", "u", "n", "c", "e", "d", " ", "s", "t", "a", "f",
         "f", " ", "r", "e", "d", "u", "c", "t", "i", "o", "n", "s", " ",
         "d", "u", "e", " ", "t", "o", " ", "t", "h", "e", " ", "e", "c",
         "o", "n", "o", "m", "i", "c", " ", "c", "r", "i", "s", "i", "s",
         ".">>,
       <<"I", "t", " ", "i", "s", " ", "n", "e", "c", "e", "s", "s", "a",
         "r", "y", " ", "t", "o", " ", "d", "e", "v", "e", "l", "o", "p",
         " ", "a", " ", "c", "o", "m", "p", "r", "e", "h", "e", "n", "s",
         "i", "v", "e", " ", "a", "p", "p", "r", "o", "a", "c", "h", " ",
         "t", "o", " ", "s", "o", "l", "v", "i", "n", "g", " ", "t", "h",
         "i", "s", " ", "p", "r", "o", "b", "l", "e", "m", ".">> >>

\* var exercise Exercise with Type and Level set.
EmptyExercise(exerciseType, level) ==
    [Type |-> exerciseType, Level |-> level, Instruction |-> <<>>,
     Content |-> <<>>, Answer |-> <<>>, Options |-> <<>>]

\* WithOptions that leaves the options out.
WithOptions_NoOptions(e, instruction, sentence, answer) ==
    [e EXCEPT !.Instruction = instruction,
              !.Answer = answer,
              !.Content = cleanExerciseContent(sentence)]

\* WithOptions that does not split the options.
WithOptions_Unsplit(e, instruction, sentence, answer) ==
    [e EXCEPT !.Instruction = instruction,
              !.Answer = answer,
              !.Options = <<extractOptions(sentence)>>,
              !.Content = cleanExerciseContent(sentence)]

\* The exercise with a sentence that holds its options in parentheses.
WithOptions(e, instruction, sentence, answer) ==
    [e EXCEPT !.Instruction = instruction,
              !.Answer = answer,
              !.Options = Split(extractOptions(sentence), "/"),
              !.Content = cleanExerciseContent(sentence)]

\* The exercise with a sentence that is given as it is.
Plain(e, instruction, sentence, answer) ==
    [e EXCEPT !.Instruction = instruction, !.Answer = answer,
              !.Content = sentence]

\* SimpleWords that takes B1 for a level of beginners.
SimpleWords_WithB1(level) == level = "A1" \/ level = "A2" \/ level = "B1"

\* The levels of the vocabulary for beginners.
SimpleWords(level) == level = "A1" \/ level = "A2"

\* What rand.Intn(len(sentences)) returns: every table has five sentences.
RandIntn == 0..(Len(TensesSentences) - 1)

\* GenerateSimpleExercise, index being what rand.Intn returns.
GenerateSimpleExercise(exerciseType, level, index) ==
    LET e == EmptyExercise(exerciseType, level)
        i == index + 1
    IN CASE exerciseType = "grammar" ->
              IF level = "A1" \/ level = "A2" \/ level = "B1"
              THEN WithOptions(e, TensesInstruction, TensesSentences[i],
                               TensesAnswers[i])
              ELSE Plain(e, ConditionalInstruction, ConditionalSentences[i],
                         ConditionalAnswers[i])
         [] exerciseType = "vocabulary" ->
              IF SimpleWords(level)
              THEN WithOptions(e, VocabularyInstruction, SimpleWordSentences[i],
                               SimpleWordAnswers[i])
              ELSE WithOptions(e, VocabularyInstruction, AdvancedWordSentences[i],
                               AdvancedWordAnswers[i])
         [] exerciseType = "translation" ->
              IF level = "A1" \/ level = "A2"
              THEN Plain(e, TranslationInstruction, SimpleTranslationSentences[i],
                         SimpleTranslationAnswers[i])
              ELSE Plain(e, TranslationInstruction,
                         AdvancedTranslationSentences[i],
                         AdvancedTranslationAnswers[i])
         [] OTHER -> e

\* GenerateSimpleExercise is called.
GenerateSimpleExerciseCall ==
    /\ call = NoCall
    /\ \E exerciseType \in ExerciseTypes, level \in EnglishLevels,
          index \in RandIntn :
         call' = [op |-> "GenerateSimpleExercise", exerciseType |-> exerciseType,
                  level |-> level, index |-> index,
                  exercise |-> GenerateSimpleExercise(exerciseType, level, index)]
    /\ OnlyCall

\* The sentences of templates: short ones of letters, parentheses and "/",
\* and some of the kind the tables hold.
TemplateAlphabet == {"a", "(", ")", "/"}
ExampleTemplates ==
    { <<"I", " ", "(", "g", "o", "/", "g", "o", "e", "s", ")">>,
      <<"I", " ", "g", "o">>,
      <<"a", ")", " ", "b", " ", "(", "c">>,
      <<"(", "a", "/", "b", ")", " ", "(", "c", "/", "d", ")">> }
Templates == Strings(TemplateAlphabet, MaxLen) \cup ExampleTemplates

\* extractOptions and cleanExerciseContent are called with one sentence, as
\* GenerateSimpleExercise calls them.
ExtractCall ==
    /\ call = NoCall
    /\ \E content \in Templates :
         call' = [op |-> "extract", content |-> content,
                  options |-> extractOptions(content),
                  cleaned |-> cleanExerciseContent(content)]
    /\ OnlyCall

\* ExerciseService: GenerateExercise, the exercise written by the provider.

\* A line of the response is a marker when it holds "instruct", in small or
\* capital letters, or "1.".
IsMarker(line) ==
    \/ Contains(ToLower(line), <<"i", "n", "s", "t", "r", "u", "c", "t">>)
    \/ Contains(line, <<"1", ".">>)

\* extractInstructions that looks for the next line that is not empty.
extractInstructions_NextNonEmpty(content) ==
    LET lines == Split(content, "\n")
        markers == {i \in DOMAIN lines : IsMarker(lines[i])}
        first == CHOOSE m \in markers : \A x \in markers : m <= x
        after == {k \in DOMAIN lines : k > first /\ lines[k] # <<>>}
    IN IF markers = {} THEN TrimSpace(lines[1])
       ELSE IF after = {} THEN <<>>
       ELSE TrimSpace(lines[CHOOSE k \in after : \A x \in after : k <= x])

\* The loop of extractInstructions from line i on (lines are counted from 1
\* here): at the first marker the line after it, trimmed, or the marker
\* itself, trimmed, when it is the last line; the first line, trimmed, when
\* there is no marker.
RECURSIVE ScanLines(_, _)
ScanLines(lines, i) ==
    IF i > Len(lines) THEN TrimSpace(lines[1])
    ELSE IF IsMarker(lines[i])
         THEN IF i + 1 <= Len(lines) THEN TrimSpace(lines[i + 1])
              ELSE TrimSpace(lines[i])
    ELSE ScanLines(lines, i + 1)

\* extractInstructions.  strings.Split gives one line at least.
extractInstructions(content) == ScanLines(Split(content, "\n"), 1)

\* The lines the provider answers with, and its responses: up to MaxLines
\* lines with a line feed between them.
MaxLines == 3
ResponseLines ==
    { <<>>,
      <<"I", "n", "s", "t", "r", "u", "c", "t", "i", "o", "n", "s", ":">>,
      <<"1", ".", " ", "a">>,
      <<"G", "o">>,
      <<" ", "x", " ">>,
      <<"i", "n", "s", "t", "r", "u", "c", "t", "o", "r">> }
RECURSIVE Responses(_)
Responses(n) ==
    IF n = 1 THEN ResponseLines
    ELSE Responses(n - 1)
           \cup {r \o <<"\n">> \o l : r \in Responses(n - 1), l \in ResponseLines}

\* GenerateExercise is called; the provider answers with a response or
\* fails, and then there is no exercise.
GenerateExerciseCall ==
    /\ call = NoCall
    /\ \E exerciseType \in ExerciseTypes, level \in EnglishLevels :
         \/ \E content \in Responses(MaxLines) :
              call' = [op |-> "GenerateExercise", exerciseType |-> exerciseType,
                       level |-> level, content |-> content, err |-> FALSE,
                       exercise |->
                           [EmptyExercise(exerciseType, level) EXCEPT
                               !.Content = content,
                               !.Instruction = extractInstructions(content)]]
         \/ call' = [op |-> "GenerateExercise", exerciseType |-> exerciseType,
                     level |-> level, err |-> TRUE]
    /\ OnlyCall

NextGenerator ==
    \/ GenerateSimpleExerciseCall
    \/ ExtractCall
    \/ GenerateExerciseCall

\* One call of the generator of exercises.
SpecGenerator == Init /\ [][NextGenerator]_vars

----------------------------------------------------------------------------
\* RateLimiter.HandleUpdate, for updates handled one after another.

\* The clock counts ticks of half a second; it does not run backwards
\* (time.Time.Sub compares the monotonic readings).
TicksPerSecond == 2
MaxClock == 4
MaxUpdates == 3

\* TooSoon with a limit of one tick.
TooSoon_OneTick(lastRequest, now) == now - lastRequest < 1

\* now.Sub(lastRequest) < 1*time.Second.
TooSoon(lastRequest, now) == now - lastRequest < TicksPerSecond

\* The updates: with a message of a user, or without a message (From is not
\* read then).
Updates ==
    {[message |-> TRUE, user |-> u] : u \in LimiterUsers}
       \cup {[message |-> FALSE, user |-> 0]}

\* What is kept of a handled update: the update, the time, and whether it
\* was given to the next handler.
Handled(update, forwarded) ==
    [message |-> update.message, user |-> update.user, at |-> clock,
     forwarded |-> forwarded]

\* The steps of the rate limiter leave the store, the turns and the calls
\* alone.
OnlyLimiter ==
    UNCHANGED <<users, user_sessions, exercises, user_exercises, conversations,
                conversation_messages, user_progress, user_achievements, today,
                turn, call>>

\* RateLimiter.HandleUpdate: an update without a message goes to the next
\* handler at once; one with a message is dropped when the user has an entry
\* in limits that is less than a second old; otherwise the entry is set to
\* now and the update goes to the next handler.
RateLimiterHandleUpdate ==
    /\ Len(updates) < MaxUpdates
    /\ \E update \in Updates :
         IF ~ update.message
         THEN /\ updates' = Append(updates, Handled(update, TRUE))
              /\ UNCHANGED limits
         ELSE LET lastRequest == limits[update.user]
                  ok == lastRequest # NoRequest
              IN IF ok /\ TooSoon(lastRequest, clock)
                 THEN /\ updates' = Append(updates, Handled(update, FALSE))
                      /\ UNCHANGED limits
                 ELSE /\ limits' = [limits EXCEPT ![update.user] = clock]
                      /\ updates' = Append(updates, Handled(update, TRUE))
    /\ UNCHANGED clock
    /\ OnlyLimiter

\* Half a second passes.
Tick ==
    /\ clock < MaxClock
    /\ clock' = clock + 1
    /\ UNCHANGED <<limits, updates>>
    /\ OnlyLimiter

NextLimiter ==
    \/ RateLimiterHandleUpdate
    \/ Tick

\* The rate limiter on its own.
SpecLimiter == Init /\ [][NextLimiter]_vars

----------------------------------------------------------------------------
\* What the claims speak of.

\* Turn t returns in this step.
Ends(t) == InFlight(t) /\ turn'[t].pc = "done"

\* The step is one of turn t's own.
OwnStep(t) == turn'[t] # turn[t] /\ turn'[t].pc # "killed"

\* The stored session a turn works on: the row it has loaded or inserted.
HasSession(t) == turn[t].session.ID # 0
Row(t) == user_sessions[turn[t].session.ID]

\* The exercise id a context_data holds: 0 when it does not parse or holds
\* none.
ExerciseIDOf(b) ==
    IF Unmarshal(b).err THEN 0 ELSE Sscanf_d(MapGet(Unmarshal(b).val, "exerciseID"))

HasExerciseID(b) ==
    /\ ~Unmarshal(b).err
    /\ "exerciseID" \in DOMAIN Unmarshal(b).val

----------------------------------------------------------------------------
\* C1: when a /exercise turn runs to completion, the stored session it works
\* on is in state exercise_reply and its context holds an exerciseID that is
\* the id of the exercise the turn has saved.
C1_ExerciseEndsInReply ==
    [][\A t \in Turns :
         (Ends(t) /\ turn'[t].msg = "exercise" /\ turn'[t].outcome = "ok") =>
            /\ turn[t].savedExercise \in DOMAIN exercises'
            /\ user_sessions'[turn[t].session.ID].state = StateExerciseReply
            /\ HasExerciseID(user_sessions'[turn[t].session.ID].contextData)
            /\ ExerciseIDOf(user_sessions'[turn[t].session.ID].contextData)
                  = turn[t].savedExercise]_vars

\* A /exercise turn has returned and the user's session waits for the reply
\* to a stored exercise.
C1_Witness ==
    \E t \in Turns :
        /\ turn[t].pc = "done" /\ turn[t].msg = "exercise" /\ turn[t].outcome = "ok"
        /\ \E i \in SessionRows(turn[t].user) :
              /\ user_sessions[i].state = StateExerciseReply
              /\ ExerciseIDOf(user_sessions[i].contextData) \in DOMAIN exercises

\* C2: a free-text turn in state exercise_reply adds exactly one row of the
\* user to user_exercises and raises the user's totalExercises by exactly 1
\* (correctExercises by 1 or 0) when it saves the answer, and stores the state
\* idle when it resets the session.
UserExerciseRows(rows, u) == {i \in DOMAIN rows : rows[i].userID = u}

C2_ReplyRecordsOneAttempt ==
    [][\A t \in Turns :
         /\ (turn[t].pc = "msg_reply" /\ OwnStep(t)) =>
               /\ Cardinality(UserExerciseRows(user_exercises', turn[t].user))
                     = Cardinality(UserExerciseRows(user_exercises, turn[t].user)) + 1
               /\ user_progress'[turn[t].user].TotalExercises
                     = user_progress[turn[t].user].TotalExercises + 1
               /\ user_progress'[turn[t].user].CorrectExercises
                     - user_progress[turn[t].user].CorrectExercises \in {0, 1}
         /\ (turn[t].pc = "msg_reply_reset" /\ OwnStep(t)) =>
               user_sessions'[turn[t].session.ID].state = StateIdle]_vars

\* C3: the state of every stored session is one of the five states, and a
\* session that is inserted is in state idle.
C3_SessionStateEnumerated ==
    [][/\ \A i \in DOMAIN user_sessions' : user_sessions'[i].state \in States
       /\ \A i \in (DOMAIN user_sessions') \ (DOMAIN user_sessions) :
             user_sessions'[i].state = StateIdle]_vars

\* Two sessions have been inserted; one has gone on to exercise_reply, the
\* other is as inserted.
C3_Witness ==
    \E i, j \in DOMAIN user_sessions :
        /\ user_sessions[i].state = StateExerciseReply
        /\ user_sessions[j] = NewSessionRow(user_sessions[j].userID)

\* C4: a stored session in state exercise_reply has a context_data that
\* parses and holds an exerciseID.
C4_ReplyHasExerciseID ==
    \A i \in DOMAIN user_sessions :
        user_sessions[i].state = StateExerciseReply =>
            HasExerciseID(user_sessions[i].contextData)

\* A session is in exercise_reply while another turn, which loaded it in
\* another state, is about to write it.
C4_Witness ==
    \E t \in Turns :
        /\ InFlight(t) /\ HasSession(t)
        /\ turn[t].pc \in {"cmd_start", "cmd_chat", "cmd_check", "cmd_exercise",
                           "msg_default"}
        /\ turn[t].session.State # StateExerciseReply
        /\ Row(t).state = StateExerciseReply

\* C5: at most one session row per user.
C5_OneSessionPerUser ==
    \A u \in Users : Cardinality(SessionRows(u)) <= 1

\* A context_data and a conversation id as a turn holds them.
SameSession(row, s) ==
    /\ row.state = s.State
    /\ row.contextData = s.ContextData
    /\ (IF row.conversationID = Null THEN <<>> ELSE row.conversationID)
          = s.ConversationID

\* A stored session that holds what its state needs: chat a conversation of
\* the user, exercise_reply a stored exercise; exercise is the state of a
\* transition under way.
CompleteSession(row, convs, exs) ==
    /\ row.state # StateExercise
    /\ row.state = StateChat =>
          /\ Sscanf_d(row.conversationID) \in DOMAIN convs
          /\ convs[Sscanf_d(row.conversationID)].userID = row.userID
    /\ row.state = StateExerciseReply =>
          ExerciseIDOf(row.contextData) \in DOMAIN exs

\* C6: when a turn returns, with or without an error, the stored session it
\* works on is as the turn loaded it or holds a complete transition.
C6_TransitionOrUnchanged ==
    [][\A t \in Turns :
         (Ends(t) /\ turn[t].loaded.ID # 0) =>
            \/ SameSession(user_sessions'[turn[t].loaded.ID], turn[t].loaded)
            \/ CompleteSession(user_sessions'[turn[t].loaded.ID],
                               conversations', exercises')]_vars

\* C7: a turn in which the provider call fails (exercise generation, chat
\* reply, grammar check) returns with the stored state as it loaded it.
C7_ProviderFailureKeepsState ==
    [][\A t \in Turns :
         (/\ turn[t].pc \in {"cmd_exercise_gen", "msg_chat_reply", "msg_grammar"}
          /\ Ends(t) /\ turn'[t].outcome = "error") =>
            user_sessions'[turn[t].loaded.ID].state = turn[t].loaded.State]_vars

\* What a session needs to be graded in state exercise_reply.
ContextMatches(b, exs) == ExerciseIDOf(b) \in DOMAIN exs

C9_ExerciseIsTransient ==
    \A i \in DOMAIN user_sessions :
        user_sessions[i].state = StateExercise =>
            \E t \in Turns :
                /\ turn[t].pc \in {"cmd_exercise_gen", "cmd_exercise_commit"}
                /\ turn[t].session.ID = i

\* C10, as claimed: a /start turn leaves the stored session in state idle
\* with an empty context.
C10_StartResetsContext ==
    [][\A t \in Turns :
         (Ends(t) /\ turn'[t].msg = "start") =>
            /\ user_sessions'[turn[t].session.ID].state = StateIdle
            /\ user_sessions'[turn[t].session.ID].contextData
                  = Marshal(EmptyMap)]_vars

\* C10, amended: a /start turn leaves the stored session in state idle, with
\* the context_data and the conversation id as the turn loaded them.
C10_StartKeepsContext ==
    [][\A t \in Turns :
         (Ends(t) /\ turn'[t].msg = "start") =>
            /\ user_sessions'[turn[t].session.ID].state = StateIdle
            /\ user_sessions'[turn[t].session.ID].contextData
                  = turn[t].loaded.ContextData
            /\ user_sessions'[turn[t].session.ID].conversationID
                  = turn[t].loaded.ConversationID]_vars

\* A /start turn has returned and the user's session is idle with the
\* exercise id of the activity before.
C10_Witness ==
    \E t \in Turns :
        /\ turn[t].pc = "done" /\ turn[t].msg = "start" /\ turn[t].outcome = "ok"
        /\ \E i \in SessionRows(turn[t].user) :
              /\ user_sessions[i].state = StateIdle
              /\ HasExerciseID(user_sessions[i].contextData)

\* The text turn t handles was loaded in state st.
TextIn(t, st) == turn[t].msg = "text" /\ turn[t].loaded.State = st

\* C11: when a /chat turn runs to completion, whatever state it loaded, the
\* stored session it works on is in state chat and holds the id of a
\* conversation of the turn's user.
C11_ChatEndsInChat ==
    [][\A t \in Turns :
         (Ends(t) /\ turn'[t].msg = "chat" /\ turn'[t].outcome = "ok") =>
            LET row == user_sessions'[turn[t].session.ID]
                id == Sscanf_d(row.conversationID)
            IN /\ row.state = StateChat
               /\ id \in DOMAIN conversations'
               /\ conversations'[id].userID = turn[t].user]_vars

\* A /chat turn that found the session waiting for an exercise reply has
\* returned, and the session is in chat with a conversation of the user.
C11_Witness ==
    \E t \in Turns :
        /\ turn[t].pc = "done" /\ turn[t].msg = "chat" /\ turn[t].outcome = "ok"
        /\ \E i \in SessionRows(turn[t].user) :
              /\ user_sessions[i].state = StateChat
              /\ HasExerciseID(user_sessions[i].contextData)
              /\ Sscanf_d(user_sessions[i].conversationID) \in DOMAIN conversations

\* C12, as claimed: a /check turn leaves the stored session in state
\* grammar_check with an empty context.
C12_CheckClearsContext ==
    [][\A t \in Turns :
         (Ends(t) /\ turn'[t].msg = "check") =>
            /\ user_sessions'[turn[t].session.ID].state = StateGrammarCheck
            /\ user_sessions'[turn[t].session.ID].contextData
                  = Marshal(EmptyMap)]_vars

\* C12, amended: a /check turn leaves the stored session in state
\* grammar_check, with the context_data as the turn loaded it.
C12_CheckKeepsContext ==
    [][\A t \in Turns :
         (Ends(t) /\ turn'[t].msg = "check") =>
            /\ user_sessions'[turn[t].session.ID].state = StateGrammarCheck
            /\ user_sessions'[turn[t].session.ID].contextData
                  = turn[t].loaded.ContextData]_vars

\* A /check turn has returned and the session is in grammar_check with the
\* exercise id of the activity before.
C12_Witness ==
    \E t \in Turns :
        /\ turn[t].pc = "done" /\ turn[t].msg = "check" /\ turn[t].outcome = "ok"
        /\ \E i \in SessionRows(turn[t].user) :
              /\ user_sessions[i].state = StateGrammarCheck
              /\ HasExerciseID(user_sessions[i].contextData)

\* C13: a free-text turn that loaded the session in state chat stores no
\* state but chat, whether the provider call succeeds or fails.
C13_ChatTextKeepsChat ==
    [][\A t \in Turns :
         (TextIn(t, StateChat) /\ OwnStep(t)) =>
            \/ user_sessions' = user_sessions
            \/ user_sessions'[turn[t].loaded.ID].state = StateChat]_vars

\* A free-text turn in chat has returned after the reply was appended, and
\* the session is in chat.
C13_Witness ==
    \E t \in Turns :
        /\ turn[t].pc = "done" /\ turn[t].msg = "text" /\ turn[t].outcome = "ok"
        /\ Len(conversation_messages) >= 2
        /\ \E i \in SessionRows(turn[t].user) :
              /\ user_sessions[i].state = StateChat
              /\ Sscanf_d(user_sessions[i].conversationID) \in DOMAIN conversations

\* C14: a free-text turn that loaded the session in state grammar_check and
\* whose grammar check succeeds stores nothing but the state idle, and when
\* it returns it has stored it and returns from UpdateUserStreak, with the
\* user's progress row in place.
C14_GrammarTextEndsIdle ==
    [][\A t \in Turns :
         (TextIn(t, StateGrammarCheck) /\ OwnStep(t)) =>
            /\ user_sessions' # user_sessions =>
                  user_sessions'[turn[t].loaded.ID].state = StateIdle
            /\ (Ends(t) /\ turn'[t].outcome = "ok") =>
                  /\ turn[t].session.State = StateIdle
                  /\ turn[t].pc \in {"progress_create", "streak_update"}
                  /\ user_progress'[turn[t].user].exists]_vars

\* A /check turn and then a free-text turn have returned; the session is
\* idle again.
C14_Witness ==
    \E a, b \in Turns :
        /\ turn[a].pc = "done" /\ turn[a].msg = "check" /\ turn[a].outcome = "ok"
        /\ turn[b].pc = "done" /\ turn[b].msg = "text" /\ turn[b].outcome = "ok"
        /\ turn[a].user = turn[b].user
        /\ user_progress[turn[b].user].exists
        /\ \A i \in SessionRows(turn[b].user) : user_sessions[i].state = StateIdle

\* C15: a free-text turn that loaded the session in a state other than chat,
\* grammar_check and exercise_reply returns without error and with the state
\* idle stored.
C15_OtherTextEndsIdle ==
    [][\A t \in Turns :
         (/\ turn[t].msg = "text"
          /\ turn[t].loaded.State
                \notin {StateChat, StateGrammarCheck, StateExerciseReply}
          /\ Ends(t)) =>
            /\ turn'[t].outcome = "ok"
            /\ user_sessions'[turn[t].loaded.ID].state = StateIdle]_vars

\* A free-text turn has returned and the session is idle, while another
\* free-text turn still holds the unknown state both have loaded.
C15_Witness ==
    \E a, b \in Turns :
        /\ turn[a].pc = "done" /\ turn[a].msg = "text" /\ turn[a].outcome = "ok"
        /\ turn[b].pc = "msg_default" /\ turn[b].msg = "text"
        /\ turn[b].loaded.State \notin States
        /\ user_sessions[turn[b].loaded.ID].state = StateIdle

\* C16: UpdateUserSession stores what the turn holds, whatever the row holds:
\* the conversation id written is the one the turn has loaded or has started
\* itself.
C16_LastWriteWins ==
    [][\A t \in Turns :
         (/\ OwnStep(t) /\ HasSession(t)
          /\ user_sessions' # user_sessions
          /\ Len(user_sessions') = Len(user_sessions)) =>
            user_sessions'[turn[t].session.ID].conversationID
               \in {turn[t].session.ConversationID,
                    Sprintf_d(turn[t].conversationID)}]_vars

\* A lost update: a /chat turn has returned after storing its conversation's
\* id, a /check turn that loaded the session before has written after it, and
\* the stored session holds no conversation id.
C16_Witness ==
    \E a, b \in Turns :
        /\ turn[a].pc = "done" /\ turn[a].msg = "chat" /\ turn[a].outcome = "ok"
        /\ turn[b].pc = "done" /\ turn[b].msg = "check" /\ turn[b].outcome = "ok"
        /\ turn[a].user = turn[b].user
        /\ Cardinality(SessionRows(turn[a].user)) = 1
        /\ \A i \in SessionRows(turn[a].user) :
              /\ user_sessions[i].state = StateGrammarCheck
              /\ user_sessions[i].conversationID = <<>>

\* The conversation messages of user u's conversations.
UserMessages(msgs, u) ==
    {i \in DOMAIN msgs : conversations[msgs[i].conversationID].userID = u}

C18_CorrectAtMostTotal ==
    \A u \in Users :
        user_progress[u].CorrectExercises <= user_progress[u].TotalExercises

\* A correct answer is recorded and counted.
C18_Witness ==
    \E u \in Users :
        /\ user_progress[u].exists
        /\ user_progress[u].CorrectExercises = 1
        /\ \E i \in UserExerciseRows(user_exercises, u) : user_exercises[i].isCorrect

\* The progress row after a call of UpdateUserStreak that has read it.
Recorded(p, now) ==
    IF NextStreak(p, now).write THEN WriteStreak(p, NextStreak(p, now), now) ELSE p

\* C19: a streak update looks at the days only.  With the progress it has
\* read last active yesterday it stores currentStreak + 1, last active today
\* it changes nothing in the progress row, otherwise it stores currentStreak
\* 1.  Hence from currentStreak 0 and last active two days ago the first
\* update gives 1, a second on the same day changes nothing, and one on the
\* day after gives 2.
C19_StreakLaw ==
    [][/\ \A t \in Turns :
            (turn[t].pc = "streak_update" /\ OwnStep(t)) =>
               LET p == turn[t].progress
                   row == user_progress'[turn[t].user]
               IN CASE p.LastActivityDate = today - 1 ->
                         /\ row.CurrentStreak = p.CurrentStreak + 1
                         /\ row.LastActivityDate = today
                    [] p.LastActivityDate = today ->
                         user_progress' = user_progress
                    [] OTHER ->
                         /\ row.CurrentStreak = 1
                         /\ row.LastActivityDate = today
       /\ \A d \in 0..MaxDay :
            LET p0 == [NoProgress EXCEPT !.exists = TRUE, !.LastActivityDate = d - 2]
                p1 == Recorded(p0, d)
                p2 == Recorded(p1, d)
                p3 == Recorded(p2, d + 1)
            IN /\ p1.CurrentStreak = 1
               /\ p2 = p1
               /\ p3.CurrentStreak = 2]_vars

\* Three updates have run, over a midnight, on a row last active two days
\* before the first, and the streak is 2.
C19_Witness ==
    /\ \A t \in Turns : turn[t].pc = "done"
    /\ today = 1
    /\ \E u \in Users :
          /\ user_progress[u].CurrentStreak = 2
          /\ user_progress[u].LongestStreak = 2
          /\ user_progress[u].LastActivityDate = 1

\* C20: the streak update that works on a progress row on which no streak
\* has been recorded yet (the row was created in this call, or is as it was
\* created) stores currentStreak 1.
C20_FirstActivityStartsStreak ==
    [][\A t \in Turns :
         (/\ turn[t].pc = "streak_update" /\ OwnStep(t)
          /\ turn[t].progress.CurrentStreak = 0
          /\ turn[t].progress.LongestStreak = 0) =>
            user_progress'[turn[t].user].CurrentStreak = 1]_vars

\* C21: a streak update that changes the progress row leaves in it
\* longestStreak = max(longestStreak before, currentStreak after), and
\* longestStreak never goes down.
C21_LongestIsMax ==
    [][/\ \A t \in Turns :
            (/\ turn[t].pc = "streak_update" /\ OwnStep(t)
             /\ user_progress' # user_progress) =>
               LET before == user_progress[turn[t].user]
                   after == user_progress'[turn[t].user]
               IN after.LongestStreak =
                     IF after.CurrentStreak > before.LongestStreak
                     THEN after.CurrentStreak ELSE before.LongestStreak
       /\ \A u \in Users :
            user_progress'[u].LongestStreak >= user_progress[u].LongestStreak]_vars

\* The positions of a turn inside AddUserAchievement.
InUnlock(t) == turn[t].pc \in {"achievement_select", "achievement_insert"}

\* AddUserAchievement, called by turn t, returns in this step.
UnlockReturns(t) ==
    /\ InUnlock(t) /\ OwnStep(t)
    /\ turn'[t].pc \notin {"achievement_select", "achievement_insert"}

\* C22: a streak update that has stored currentStreak n with n one of 7, 30
\* and 100 calls the unlock of streak_<n>_days, and when that returns the
\* user has an achievement of this type; a streak update that has stored any
\* other currentStreak adds no achievement and calls no unlock.  No other
\* type of achievement is ever stored.
C22_StreakUnlocksAchievement ==
    [][/\ \A t \in Turns :
            (/\ turn[t].pc = "streak_update" /\ OwnStep(t)
             /\ turn[t].progress.LastActivityDate # today) =>
               LET n == user_progress'[turn[t].user].CurrentStreak
               IN IF n \in StreakAchievements
                  THEN /\ turn'[t].pc = "achievement_select"
                       /\ turn'[t].progress.CurrentStreak = n
                  ELSE /\ turn'[t].pc \notin {"achievement_select", "achievement_insert"}
                       /\ user_achievements' = user_achievements
       /\ \A t \in Turns :
            UnlockReturns(t) =>
               AchievementRows(user_achievements', turn[t].user,
                               AchievementType(turn[t].progress.CurrentStreak)) # {}
       /\ \A i \in DOMAIN user_achievements' :
            \E n \in StreakAchievements :
               user_achievements'[i].achievementType
                  = <<"streak_">> \o Sprintf_d(n) \o <<"_days">>]_vars

\* A streak of seven days is stored, the update has returned, and the user
\* has the achievement streak_7_days.
C22_Witness ==
    /\ \A t \in Turns : ~InFlight(t)
    /\ \E u \in Users :
          /\ user_progress[u].CurrentStreak = 7
          /\ \E i \in DOMAIN user_achievements :
                /\ user_achievements[i].userID = u
                /\ user_achievements[i].achievementType
                      = <<"streak_", "7", "_days">>

\* C23: when an unlock returns, exactly one achievement of its type is
\* stored for its user, whether the unlocks of the type ran one after the
\* other or at the same time; at no time are there two.
C23_UnlockIdempotent ==
    [][/\ \A t \in Turns :
            UnlockReturns(t) =>
               Cardinality(AchievementRows(user_achievements', turn[t].user,
                              AchievementType(turn[t].progress.CurrentStreak))) = 1
       /\ \A u \in Users, n \in StreakAchievements :
            Cardinality(AchievementRows(user_achievements', u,
                                        AchievementType(n))) <= 1]_vars

\* Two unlocks of one type ran at the same time: a turn has found no
\* achievement and is about to insert one, and another has inserted it
\* meanwhile.
C23_Witness ==
    \E t \in Turns :
        /\ turn[t].pc = "achievement_insert"
        /\ AchievementRows(user_achievements, turn[t].user,
                           AchievementType(turn[t].progress.CurrentStreak)) # {}

\* The variants the grader compares with: the pieces of the lower-cased,
\* trimmed answer between "/", each trimmed.
Variants(answer) ==
    LET pieces == Split(ToLower(TrimSpace(answer)), "/")
    IN {TrimSpace(pieces[i]) : i \in DOMAIN pieces}

\* similarity(a, b) > 0.8, the similarity of "" and "" being 1.
Above08(a, b) ==
    LET m == max(Len(a), Len(b))
    IN IF m = 0 THEN TRUE ELSE 5 * (m - levenshteinDistance(a, b)) > 4 * m

\* C24: the score is 100 when the normalized answer equals a variant; else
\* 80 when its similarity to a variant is above 0.8, and not when it is 0.8 at
\* most; else 60 when it contains a variant; else 0.  So the score is one of
\* 0, 60, 80, 100, and an answer that meets an earlier tier scores no less
\* than the tier.
C24_GradeTiers ==
    call.op = "CheckAnswer" =>
        LET u == ToLower(TrimSpace(UTF8(call.userAnswer)))
            V == Variants(UTF8(call.answer))
            exact == \E v \in V : u = v
            near == \E v \in V : Above08(u, v)
            partial == \E v \in V : Contains(u, v)
        IN /\ call.score = IF exact THEN 100
                           ELSE IF near THEN 80
                           ELSE IF partial THEN 60
                           ELSE 0
           /\ call.score \in {0, 60, 80, 100}
           /\ exact => call.score >= 100
           /\ near => call.score >= 80
           /\ partial => call.score >= 60

\* "hallo" for "hello": the similarity is 0.8, and the score is 0.
C24_Witness ==
    /\ call.op = "CheckAnswer"
    /\ call.answer = <<"h", "e", "l", "l", "o">>
    /\ call.userAnswer = <<"h", "a", "l", "l", "o">>
    /\ call.score = 0

\* C25: a user answer that equals, in lower case and trimmed, one of the
\* pieces of the canonical answer between "/", in lower case and trimmed,
\* scores 100.
C25_AnyVariantScores100 ==
    call.op = "CheckAnswer" =>
        LET pieces == Split(UTF8(call.answer), "/")
        IN \A i \in DOMAIN pieces :
              ToLower(TrimSpace(UTF8(call.userAnswer))) = ToLower(TrimSpace(pieces[i]))
                 => call.score = 100

\* "a" for "A/B" scores 100.
C25_Witness ==
    /\ call.op = "CheckAnswer"
    /\ call.answer = <<"A", "/", "B">>
    /\ call.userAnswer = <<"a">>
    /\ call.score = 100

\* C27: the similarity of a text with itself is 1, that of "" with "" is 1,
\* and that of "cat" with "cats" is 0.75.
C27_SimilarityValues ==
    call.op = "levenshteinRatio" =>
        /\ call.a = call.b => call.ratio.num = call.ratio.den
        /\ (call.a = <<>> /\ call.b = <<>>) => call.ratio.num = call.ratio.den
        /\ (call.a = <<"c", "a", "t">> /\ call.b = <<"c", "a", "t", "s">>) =>
              /\ call.dist = 1
              /\ 4 * call.ratio.num = 3 * call.ratio.den

\* The similarity of "cat" and "cats" has been computed.
C27_Witness ==
    /\ call.op = "levenshteinRatio"
    /\ call.a = <<"c", "a", "t">>
    /\ call.b = <<"c", "a", "t", "s">>
    /\ 4 * call.ratio.num = 3 * call.ratio.den

\* The least number of a nonempty finite set of numbers.
Least(S) == CHOOSE m \in S : \A x \in S : m <= x

\* The edit distance of two sequences: the least number of insertions,
\* deletions and substitutions of one element that turn a into b.
RECURSIVE EditDistance(_, _)
EditDistance(a, b) ==
    IF a = <<>> THEN Len(b)
    ELSE IF b = <<>> THEN Len(a)
    ELSE Least({ EditDistance(Tail(a), b) + 1,
                 EditDistance(a, Tail(b)) + 1,
                 EditDistance(Tail(a), Tail(b))
                    + (IF Head(a) = Head(b) THEN 0 ELSE 1) })

C29_SimilarityNormalizes ==
    call.op = "levenshteinRatio" =>
        LET n == levenshteinRatio(ToLower(TrimSpace(UTF8(call.a))),
                                  ToLower(TrimSpace(UTF8(call.b))))
        IN call.ratio.num * n.den = n.num * call.ratio.den

\* C29, amended: the similarity compares the bytes as they are, two texts
\* that differ, if only in letter case or in spaces around them, have a
\* similarity below 1; it is the grader that lower-cases and trims: the
\* score of an answer is the score of its lower-cased, trimmed form against
\* the lower-cased, trimmed canonical answer.
C29_GraderNormalizes ==
    /\ call.op = "levenshteinRatio" =>
          (call.a # call.b => call.ratio.num < call.ratio.den)
    /\ call.op = "CheckAnswer" =>
          call.score = CheckAnswer(ToLower(TrimSpace(UTF8(call.answer))),
                                   ToLower(TrimSpace(UTF8(call.userAnswer))))

\* " A" for "a" scores 100.
C29_Witness ==
    /\ call.op = "CheckAnswer"
    /\ call.answer = <<"a">>
    /\ call.userAnswer = <<" ", "A">>
    /\ call.score = 100

\* C26: isCorrect of every stored answer is true exactly when CheckAnswer
\* scores the answer 100 against the exercise it answers.
C26_CorrectIffScore100 ==
    \A i \in DOMAIN user_exercises :
        LET row == user_exercises[i]
        IN row.isCorrect <=>
              CheckAnswer(UTF8(exercises[row.exerciseID].answer),
                          UTF8(row.userAnswer)) = 100

\* C30: whatever sentence is drawn, the exercise generated for grammar and
\* A1 has neither "(" nor ")" in its content, and two options or more.
C30_GrammarA1Cleaned ==
    (/\ call.op = "GenerateSimpleExercise"
     /\ call.exerciseType = "grammar"
     /\ call.level = "A1") =>
        /\ \A i \in DOMAIN call.exercise.Content :
              call.exercise.Content[i] \notin {"(", ")"}
        /\ Len(call.exercise.Options) >= 2

\* "What _____ this weekend?" with the options "do you do" and "are you
\* doing" has been generated for grammar and A1.
C30_Witness ==
    /\ call.op = "GenerateSimpleExercise"
    /\ call.exerciseType = "grammar"
    /\ call.level = "A1"
    /\ call.exercise.Content =
          <<"W", "h", "a", "t", " ", "_", "_", "_", "_", "_", " ", " ", "t", "h",
            "i", "s", " ", "w", "e", "e", "k", "e", "n", "d", "?">>
    /\ call.exercise.Options =
          << <<"d", "o", " ", "y", "o", "u", " ", "d", "o">>,
             <<"a", "r", "e", " ", "y", "o", "u", " ", "d", "o", "i", "n", "g">> >>

\* The exercise e1 is e2 but for the level it is marked with.
SameButLevel(e1, e2) == [e1 EXCEPT !.Level = e2.Level] = e2

\* C31 as stated: for grammar and for vocabulary, the levels A1, A2 and B1
\* give the same exercises, and so do B2, C1 and C2.
C31_SameBucketsForBoth ==
    (/\ call.op = "GenerateSimpleExercise"
     /\ call.exerciseType \in {"grammar", "vocabulary"}) =>
        \A l \in EnglishLevels :
            ((l \in {"A1", "A2", "B1"}) <=> (call.level \in {"A1", "A2", "B1"}))
               => SameButLevel(GenerateSimpleExercise(call.exerciseType, l, call.index),
                               call.exercise)

\* The levels that draw from the same list as level: for grammar A1, A2, B1
\* and B2, C1, C2; for vocabulary A1, A2 and B1, B2, C1, C2.
BucketOf(exerciseType, level) ==
    LET lower == IF exerciseType = "grammar" THEN {"A1", "A2", "B1"}
                 ELSE {"A1", "A2"}
    IN IF level \in lower THEN lower ELSE EnglishLevels \ lower

\* C31, amended: for grammar the levels A1, A2, B1 give the same exercises
\* and so do B2, C1, C2; for vocabulary A1 and A2 give the same exercises and
\* so do B1, B2, C1 and C2.  Levels of different buckets give different
\* exercises.
C31_BucketsByType ==
    (/\ call.op = "GenerateSimpleExercise"
     /\ call.exerciseType \in {"grammar", "vocabulary"}) =>
        \A l \in EnglishLevels :
            (l \in BucketOf(call.exerciseType, call.level))
               <=> SameButLevel(GenerateSimpleExercise(call.exerciseType, l, call.index),
                                call.exercise)

\* Vocabulary for B1 is drawn from the list for advanced learners.
C31_Witness ==
    /\ call.op = "GenerateSimpleExercise"
    /\ call.exerciseType = "vocabulary"
    /\ call.level = "B1"
    /\ call.exercise.Answer = <<"s", "t", "r", "i", "n", "g", "e", "n", "t">>

\* The pieces put together again with sep between them.
RECURSIVE Join(_, _)
Join(pieces, sep) ==
    IF pieces = <<>> THEN <<>>
    ELSE IF Len(pieces) = 1 THEN pieces[1]
    ELSE pieces[1] \o <<sep>> \o Join(Tail(pieces), sep)

\* The elements of a table.
Range(table) == {table[i] : i \in DOMAIN table}

\* The blank marker.
Blank == <<"_", "_", "_", "_", "_", " ">>

\* sentence holds the options, "/" between them, in parentheses, and content
\* is the sentence with the parentheses and what they hold replaced by the
\* blank marker.
Blanked(sentence, options, content) ==
    \E i \in DOMAIN sentence, j \in DOMAIN sentence :
        /\ i < j /\ sentence[i] = "(" /\ sentence[j] = ")"
        /\ SubSeq(sentence, i + 1, j - 1) = Join(options, "/")
        /\ content = SubSeq(sentence, 1, i - 1) \o Blank
                        \o SubSeq(sentence, j + 1, Len(sentence))

\* An exercise with options taken from one of the sentences, and no
\* parenthesis left in its content.
FromBlanked(e, sentences) ==
    /\ e.Options # <<>>
    /\ \E s \in sentences : Blanked(s, e.Options, e.Content)
    /\ \A i \in DOMAIN e.Content : e.Content[i] \notin {"(", ")"}

\* C32 as stated: every grammar or vocabulary exercise, at any level, has
\* for options what a candidate sentence holds in parentheses, split on
\* "/", and for content the sentence with the blank marker in their place.
C32_OptionsAtAnyLevel ==
    (/\ call.op = "GenerateSimpleExercise"
     /\ call.exerciseType \in {"grammar", "vocabulary"}) =>
        FromBlanked(call.exercise,
                    Range(TensesSentences) \cup Range(ConditionalSentences)
                       \cup Range(SimpleWordSentences)
                       \cup Range(AdvancedWordSentences))

\* C32, amended: this holds for the vocabulary exercises of every level and
\* for the grammar exercises of the levels A1, A2 and B1.  A grammar exercise
\* of the levels B2, C1 and C2 has no options, and its content is the
\* candidate sentence as it is, with the verb in parentheses.
C32_OptionsButConditionals ==
    (/\ call.op = "GenerateSimpleExercise"
     /\ call.exerciseType \in {"grammar", "vocabulary"}) =>
        IF call.exerciseType = "grammar" /\ call.level \in {"B2", "C1", "C2"}
        THEN /\ call.exercise.Options = <<>>
             /\ call.exercise.Content \in Range(ConditionalSentences)
             /\ \E i \in DOMAIN call.exercise.Content : call.exercise.Content[i] = "("
             /\ \E i \in DOMAIN call.exercise.Content : call.exercise.Content[i] = ")"
        ELSE FromBlanked(call.exercise,
                         Range(TensesSentences) \cup Range(SimpleWordSentences)
                            \cup Range(AdvancedWordSentences))

\* A grammar exercise for C1: "If I (have) more time, ..." and no options.
C32_Witness ==
    /\ call.op = "GenerateSimpleExercise"
    /\ call.exerciseType = "grammar"
    /\ call.level = "C1"
    /\ call.exercise.Options = <<>>
    /\ SubSeq(call.exercise.Content, 1, 11) = <<"I", "f", " ", "I", " ", "(", "h", "a", "v", "e", ")">>

\* What a step of turn t, a free-text turn in state chat, does to the
\* conversation: the step that follows the start of the conversation appends
\* the user's message and goes on to the provider; the provider's step
\* appends the reply, after the user's message, or on a failure appends
\* nothing and ends the turn with the error message; no other step of the
\* turn appends a message.  totalMessages rises by one with each message.
ChatStep(t) ==
    LET u == turn[t].user
        cid == turn[t].conversationID
        raised == user_progress'[u].TotalMessages - user_progress[u].TotalMessages
    IN CASE turn[t].pc = "msg_chat_user" ->
              /\ conversation_messages' =
                    Append(conversation_messages,
                           [conversationID |-> cid, role |-> "user"])
              /\ turn'[t].pc = "msg_chat_reply"
              /\ raised = 1
         [] turn[t].pc = "msg_chat_reply" /\ turn'[t].pc # "done" ->
              /\ conversation_messages' =
                    Append(conversation_messages,
                           [conversationID |-> cid, role |-> "bot"])
              /\ \E i \in DOMAIN conversation_messages :
                    conversation_messages[i] = [conversationID |-> cid, role |-> "user"]
              /\ raised = 1
         [] turn[t].pc = "msg_chat_reply" /\ turn'[t].pc = "done" ->
              /\ conversation_messages' = conversation_messages
              /\ turn'[t].outcome = "error"
              /\ raised = 0
         [] OTHER ->
              /\ conversation_messages' = conversation_messages
              /\ raised = 0
              /\ (Ends(t) /\ turn'[t].outcome = "ok") =>
                    turn[t].pc \in {"progress_get", "progress_create", "streak_update"}

\* C33 as stated: a free-text turn in state chat appends the user's message,
\* then the reply, and raises totalMessages with each; when the provider
\* fails no reply is appended.
C33_ChatAppendsTwo ==
    [][\A t \in Turns :
         (TextIn(t, StateChat) /\ OwnStep(t)) => ChatStep(t)]_vars

\* C34: of a sentence with one group in parentheses, the "(" before the ")",
\* cleanExerciseContent gives the sentence with the group, parentheses
\* included, replaced by the blank marker, and extractOptions gives what
\* stands between the parentheses; of a sentence with no "(" before a ")",
\* cleanExerciseContent gives the sentence itself and extractOptions the
\* empty string.
Places(s, c) == {i \in DOMAIN s : s[i] = c}

C34_OneGroup ==
    call.op = "extract" =>
        LET s == call.content
            opens == Places(s, "(")
            closes == Places(s, ")")
        IN /\ \A i \in opens, j \in closes :
                 (opens = {i} /\ closes = {j} /\ i < j) =>
                    /\ call.cleaned = SubSeq(s, 1, i - 1) \o Blank
                                          \o SubSeq(s, j + 1, Len(s))
                    /\ call.options = SubSeq(s, i + 1, j - 1)
           /\ (~ \E i \in opens, j \in closes : i < j) =>
                 /\ call.cleaned = s
                 /\ call.options = <<>>

\* "I (go/goes)" has been taken apart.
C34_Witness ==
    /\ call.op = "extract"
    /\ call.content = <<"I", " ", "(", "g", "o", "/", "g", "o", "e", "s", ")">>
    /\ call.cleaned = <<"I", " ", "_", "_", "_", "_", "_", " ">>
    /\ call.options = <<"g", "o", "/", "g", "o", "e", "s">>

\* The exercise GenerateExercise has made of a response.
Generated == call.op = "GenerateExercise" /\ ~ call.err

\* The content is the response as it came, answer and options are empty.
ContentVerbatim ==
    /\ call.exercise.Content = call.content
    /\ call.exercise.Answer = <<>>
    /\ call.exercise.Options = <<>>
    /\ call.exercise.Type = call.exerciseType
    /\ call.exercise.Level = call.level

\* C35, as the specification has it: the instruction is the next line that
\* is not empty after the first line that holds "instructions", in small or
\* capital letters, or "1."; the first line when no line holds one of them;
\* the content is the response, answer and options are empty.
C35_NextNonEmptyLine ==
    Generated =>
        LET lines == Split(call.content, "\n")
            markers == {i \in DOMAIN lines :
                           \/ Contains(ToLower(lines[i]), <<"i", "n", "s", "t", "r", "u", "c", "t", "i", "o", "n", "s">>)
                           \/ Contains(lines[i], <<"1", ".">>)}
        IN /\ markers # {} =>
                 LET after == {k \in DOMAIN lines :
                                  k > Least(markers) /\ lines[k] # <<>>}
                 IN after # {} =>
                       call.exercise.Instruction = TrimSpace(lines[Least(after)])
           /\ markers = {} => call.exercise.Instruction = TrimSpace(lines[1])
           /\ ContentVerbatim

\* C35: the instruction is the line that follows the first line holding
\* "instruct", in small or capital letters, or "1.", empty or not, without
\* the white space around it; that first line itself when it is the last
\* line; the first line when no line holds one of them; the content is the
\* response, answer and options are empty.
C35_FollowingLine ==
    Generated =>
        LET lines == Split(call.content, "\n")
            markers == {i \in DOMAIN lines : IsMarker(lines[i])}
            m == Least(markers)
        IN /\ (markers # {} /\ m < Len(lines)) =>
                 call.exercise.Instruction = TrimSpace(lines[m + 1])
           /\ (markers # {} /\ m = Len(lines)) =>
                 call.exercise.Instruction = TrimSpace(lines[m])
           /\ markers = {} => call.exercise.Instruction = TrimSpace(lines[1])
           /\ ContentVerbatim

\* An exercise has been made of a response with an empty line between the
\* marker and the text: its instruction is empty.
C35_Witness ==
    /\ Generated
    /\ call.content = <<"I", "n", "s", "t", "r", "u", "c", "t", "i", "o", "n", "s", ":", "\n", "\n", "G", "o">>
    /\ call.exercise.Instruction = <<>>
    /\ call.exercise.Content = call.content

\* C36: a step of a turn that handles /help, /progress or a command that is
\* not known leaves every stored row of user_sessions as it is: state,
\* context data and conversation id (the time stamps are not part of the
\* rows here).  The row for a user without one is added when the session is
\* loaded.
QuietCommands == {"help", "progress", "other"}

C36_QuietCommandsKeepSession ==
    [][\A t \in Turns :
         (turn'[t].msg \in QuietCommands /\ OwnStep(t)) =>
            /\ \A i \in DOMAIN user_sessions :
                  /\ i \in DOMAIN user_sessions'
                  /\ user_sessions'[i] = user_sessions[i]
            /\ user_sessions' # user_sessions =>
                  /\ turn[t].pc = "session_create"
                  /\ user_sessions' =
                        Append(user_sessions, NewSessionRow(turn[t].user))]_vars

\* /progress has been handled to the end, by the only turn there was, with a
\* stored session that is not idle and holds the context of an exercise: the
\* row is as it was stored.
C36_Witness ==
    /\ turn[1].pc = "done" /\ turn[1].outcome = "ok"
    /\ turn[1].msg = "progress"
    /\ \A t \in Turns \ {1} : turn[t].pc = "new"
    /\ user_sessions = << [userID |-> 1, state |-> StateExerciseReply,
                           contextData |-> JsonObject(ExerciseContext),
                           conversationID |-> <<>>] >>

\* C37: however the streak updates of a user are interleaved, currentStreak
\* rises by one a day at most: an update that has read a last activity of
\* today writes nothing, the first update to write on a day raises the
\* stored streak by one at most, and an update that writes on a row already
\* written that day writes the streak that is stored.
StreakStep(t) == turn[t].pc = "streak_update" /\ OwnStep(t)

C37_OneRiseADay ==
    [][\A t \in Turns :
         StreakStep(t) =>
            LET before == user_progress[turn[t].user]
                after == user_progress'[turn[t].user]
            IN /\ turn[t].progress.LastActivityDate = today =>
                     after = before
               /\ before.LastActivityDate # today =>
                     after.CurrentStreak <= before.CurrentStreak + 1
               /\ before.LastActivityDate = today =>
                     after.CurrentStreak = before.CurrentStreak]_vars

\* C38: the answer of an exercise of GenerateSimpleExercise that has options
\* is one of the options, and CheckAnswer gives 100 for this option.
C38_AnswerAmongOptions ==
    (call.op = "GenerateSimpleExercise" /\ call.exercise.Options # <<>>) =>
        \E i \in DOMAIN call.exercise.Options :
            /\ call.exercise.Options[i] = call.exercise.Answer
            /\ CheckAnswer(call.exercise.Answer, call.exercise.Options[i]) = 100

\* "She _____ on the phone right now." with the options "speaks" and
\* "is speaking" and the answer "is speaking".
C38_Witness ==
    /\ call.op = "GenerateSimpleExercise"
    /\ call.exerciseType = "grammar"
    /\ call.exercise.Options = <<<<"s", "p", "e", "a", "k", "s">>, <<"i", "s", " ", "s", "p", "e", "a", "k", "i", "n", "g">>>>
    /\ call.exercise.Answer = <<"i", "s", " ", "s", "p", "e", "a", "k", "i", "n", "g">>
    /\ CheckAnswer(call.exercise.Answer, call.exercise.Options[2]) = 100

\* C39: for an exercise with an empty answer CheckAnswer gives 100 when the
\* answer of the user is empty or white space only, and 60 for every other
\* answer of the user; it gives neither 0 nor 80.
C39_EmptyAnswerScores ==
    (call.op = "CheckAnswer" /\ call.answer = <<>>) =>
        call.score = IF \A i \in DOMAIN call.userAnswer :
                            IsSpace(call.userAnswer[i])
                     THEN 100 ELSE 60

\* "hello" has been given for an exercise without an answer: 60.
C39_Witness ==
    /\ call.op = "CheckAnswer" /\ call.answer = <<>>
    /\ call.userAnswer = <<"h", "e", "l", "l", "o">>
    /\ call.score = 60

\* C40: when RateLimiter.HandleUpdate is given an update, one after another:
\* an update with a message is given to the next handler only if every
\* update of the same user given to it before is a second old at least, so
\* that two updates of a user given to the next handler are a second apart
\* at least; an update that is dropped leaves the recorded times as they
\* are; an update without a message is always given to the next handler.
C40_OneForwardASecond ==
    [][Len(updates') = Len(updates) + 1 =>
         LET e == updates'[Len(updates')]
         IN /\ (e.message /\ e.forwarded) =>
                  \A j \in DOMAIN updates :
                      (/\ updates[j].message /\ updates[j].forwarded
                       /\ updates[j].user = e.user) =>
                         e.at - updates[j].at >= TicksPerSecond
            /\ ~ e.forwarded => limits' = limits
            /\ ~ e.message => e.forwarded]_vars

\* A user has sent three messages: the first was given to the next handler,
\* the second, half a second later, was dropped, and the third, a second
\* after the first, was given to the next handler.
C40_Witness ==
    /\ Len(updates) = 3
    /\ \A i \in 1..3 : updates[i].message /\ updates[i].user = 1
    /\ updates[1].forwarded /\ updates[1].at = 0
    /\ ~ updates[2].forwarded /\ updates[2].at = 1
    /\ updates[3].forwarded /\ updates[3].at = 2
    /\ limits[1] = 2

====
